---------------------------- MODULE Spec2Model ----------------------------
(***************************************************************************)
(* A model of fussy-git: the URL normaliser (internal/gitutil/url.go),     *)
(* the registry store (internal/state) and the reorganize command's        *)
(* reconciliation pass (cmd/reorganize.go).                                *)
(*                                                                         *)
(* Go strings are sequences of one-character strings, so that parsing,     *)
(* suffix stripping and path cleaning are computed, not assumed.           *)
(***************************************************************************)
EXTENDS Integers, Sequences, FiniteSets, TLC

(***************************************************************************)
(* Package strings                                                         *)
(***************************************************************************)
\* The empty Go string.
EmptyStr == << >>

\* The element of a one-element set.  Only({e(x) : x \in {v}}) is e(v) with v
\* computed once, as a Go local variable is.
Only(S) == CHOOSE x \in S : TRUE

\* strings.HasPrefix
HasPrefix(str, prefix) ==
    \E s \in {str}, p \in {prefix} :
        /\ Len(p) <= Len(s)
        /\ SubSeq(s, 1, Len(p)) = p

\* strings.HasSuffix
HasSuffix(str, suffix) ==
    \E s \in {str}, x \in {suffix} :
        /\ Len(x) <= Len(s)
        /\ SubSeq(s, Len(s) - Len(x) + 1, Len(s)) = x

\* strings.TrimPrefix
TrimPrefix(str, prefix) ==
    Only({IF HasPrefix(s, p) THEN SubSeq(s, Len(p) + 1, Len(s)) ELSE s :
          s \in {str}, p \in {prefix}})

\* strings.TrimSuffix
TrimSuffix(str, suffix) ==
    Only({IF HasSuffix(s, x) THEN SubSeq(s, 1, Len(s) - Len(x)) ELSE s :
          s \in {str}, x \in {suffix}})

\* strings.IndexByte: the first position of character c in s, 0 when absent
\* (positions are 1-based here, Go's -1 is 0).
IndexOf(str, c) ==
    Only({IF \E i \in 1..Len(s) : s[i] = c
          THEN CHOOSE i \in 1..Len(s) : s[i] = c /\ \A j \in 1..(i - 1) : s[j] # c
          ELSE 0 : s \in {str}})

\* strings.LastIndex for a one-character needle, 0 when absent.
LastIndexOf(str, c) ==
    Only({IF \E i \in 1..Len(s) : s[i] = c
          THEN CHOOSE i \in 1..Len(s) : s[i] = c /\ \A j \in (i + 1)..Len(s) : s[j] # c
          ELSE 0 : s \in {str}})

\* strings.Contains for a one-character needle.
Contains(s, c) == IndexOf(s, c) # 0

\* strings.TrimRight(s, "/")
RECURSIVE TrimRightSlash(_)
TrimRightSlash(str) ==
    Only({IF Len(s) > 0 /\ s[Len(s)] = "/"
          THEN TrimRightSlash(SubSeq(s, 1, Len(s) - 1))
          ELSE s : s \in {str}})

\* The suffix the code strips from repository names.
DotGit == <<".", "g", "i", "t">>

(***************************************************************************)
(* Package path/filepath (Unix)                                            *)
(***************************************************************************)
\* The elements of a path between its separators, empty elements included.
RECURSIVE SplitSlash(_)
SplitSlash(str) ==
    Only({IF i = 0 THEN <<s>>
          ELSE <<SubSeq(s, 1, i - 1)>> \o SplitSlash(SubSeq(s, i + 1, Len(s))) :
          s \in {str}, i \in {IndexOf(str, "/")}})

\* strings.Join(elems, "/")
RECURSIVE JoinSlash(_)
JoinSlash(elems) ==
    Only({IF Len(es) = 0 THEN EmptyStr
          ELSE IF Len(es) = 1 THEN es[1]
          ELSE es[1] \o <<"/">> \o JoinSlash(Tail(es)) : es \in {elems}})

\* filepath.Clean's pass over the elements: "" and "." are dropped, ".."
\* removes the element before it (at the root it is dropped, in a relative
\* path a leading ".." is kept).
RECURSIVE CleanElems(_, _, _)
CleanElems(elems, out, rooted) ==
    Only({IF Len(es) = 0 THEN o
          ELSE LET e == es[1] IN
               IF e = EmptyStr \/ e = <<".">>
               THEN CleanElems(Tail(es), o, rooted)
               ELSE IF e = <<".", ".">>
               THEN IF Len(o) > 0 /\ o[Len(o)] # <<".", ".">>
                    THEN CleanElems(Tail(es), SubSeq(o, 1, Len(o) - 1), rooted)
                    ELSE IF rooted
                    THEN CleanElems(Tail(es), o, rooted)
                    ELSE CleanElems(Tail(es), Append(o, e), rooted)
               ELSE CleanElems(Tail(es), Append(o, e), rooted) :
          es \in {elems}, o \in {out}})

\* filepath.Clean
Clean(path) ==
    Only({IF p = EmptyStr THEN <<".">>
          ELSE LET rooted == p[1] = "/" IN
               Only({IF rooted THEN <<"/">> \o body
                     ELSE IF body = EmptyStr THEN <<".">> ELSE body :
                     body \in {JoinSlash(CleanElems(SplitSlash(p), << >>, rooted))}}) :
          p \in {path}})

\* filepath.Join: empty elements are ignored, the rest joined and cleaned.
FilepathJoin(elems) ==
    Only({IF Len(kept) = 0 THEN EmptyStr ELSE Clean(JoinSlash(kept)) :
          kept \in {SelectSeq(elems, LAMBDA e : e # EmptyStr)}})

\* filepath.Base
Base(path) ==
    Only({IF t = EmptyStr THEN (IF path = EmptyStr THEN <<".">> ELSE <<"/">>)
          ELSE SubSeq(t, LastIndexOf(t, "/") + 1, Len(t)) :
          t \in {TrimRightSlash(path)}})

\* filepath.Dir
Dir(path) ==
    Only({Clean(SubSeq(p, 1, LastIndexOf(p, "/"))) : p \in {path}})

(***************************************************************************)
(* Package net/url, as far as ParseGitURL uses it.  The model covers URLs  *)
(* over letters, digits and the characters . - _ / : @ (no query, no       *)
(* fragment, no percent-escapes, no bracketed IPv6 host).                  *)
(***************************************************************************)
Letters == {"a", "b", "c", "f", "g", "h", "i", "l", "o", "p", "r", "s", "t", "w", "x"}

Digits == {"2"}

\* url.getScheme: [ok, scheme, rest].  A scheme is a run of letters (after
\* the first character also digits, + - .) ended by ':'; a ':' in front is
\* an error ("missing protocol scheme"); any other character means the
\* string has no scheme.
RECURSIVE GetSchemeFrom(_, _)
GetSchemeFrom(raw, i) ==
    IF i > Len(raw) THEN [ok |-> TRUE, scheme |-> EmptyStr, rest |-> raw]
    ELSE LET c == raw[i] IN
         IF c \in Letters THEN GetSchemeFrom(raw, i + 1)
         ELSE IF c \in Digits \cup {"+", "-", "."}
         THEN IF i = 1 THEN [ok |-> TRUE, scheme |-> EmptyStr, rest |-> raw]
              ELSE GetSchemeFrom(raw, i + 1)
         ELSE IF c = ":"
         THEN IF i = 1 THEN [ok |-> FALSE, scheme |-> EmptyStr, rest |-> EmptyStr]
              ELSE [ok |-> TRUE, scheme |-> SubSeq(raw, 1, i - 1),
                    rest |-> SubSeq(raw, i + 1, Len(raw))]
         ELSE [ok |-> TRUE, scheme |-> EmptyStr, rest |-> raw]

GetScheme(rawURL) == Only({GetSchemeFrom(raw, 1) : raw \in {rawURL}})

\* url.validOptionalPort: "" or ":" followed by digits only.
ValidOptionalPort(port) ==
    \E p \in {port} :
        \/ p = EmptyStr
        \/ /\ p[1] = ":"
           /\ \A i \in 2..Len(p) : p[i] \in Digits

\* url.parseHost: a host with a colon must end in a valid port.
ParseHostOK(host) ==
    \E h \in {host} : \E i \in {LastIndexOf(h, ":")} :
        i = 0 \/ ValidOptionalPort(SubSeq(h, i, Len(h)))

\* URL.Hostname: the host without a valid port.
Hostname(host) ==
    Only({IF i # 0 /\ ValidOptionalPort(SubSeq(h, i, Len(h)))
          THEN SubSeq(h, 1, i - 1)
          ELSE h : h \in {host}, i \in {LastIndexOf(host, ":")}})

\* url.parseAuthority: [ok, hasUser, user, host]; the user name is the user
\* info up to its first ':' (the password is dropped by Username()).
ParseAuthority(authority) ==
    Only({LET host     == SubSeq(a, i + 1, Len(a))
              userinfo == SubSeq(a, 1, i - 1)
              c        == IndexOf(userinfo, ":")
          IN  [ok      |-> ParseHostOK(host),
               hasUser |-> i # 0,
               user    |-> IF i = 0 THEN EmptyStr
                           ELSE IF c = 0 THEN userinfo
                           ELSE SubSeq(userinfo, 1, c - 1),
               host    |-> host] :
          a \in {authority}, i \in {LastIndexOf(authority, "@")}})

\* The nil *url.URL returned with an error.
NoURL ==
    [ok |-> FALSE, Scheme |-> EmptyStr, hasUser |-> FALSE, User |-> EmptyStr,
     Host |-> EmptyStr, Path |-> EmptyStr, Opaque |-> EmptyStr]

\* The part of url.Parse after the scheme: gs is what getScheme returned.
UrlParseRest(gs) ==
    IF ~gs.ok THEN NoURL
    ELSE LET rest == gs.rest IN
    IF ~HasPrefix(rest, <<"/">>) /\ gs.scheme # EmptyStr
    THEN \* a rootless path after a scheme is opaque
         [NoURL EXCEPT !.ok = TRUE, !.Scheme = gs.scheme, !.Opaque = rest]
    ELSE IF /\ ~HasPrefix(rest, <<"/">>)
            /\ Contains(SplitSlash(rest)[1], ":")
    THEN \* first path segment in URL cannot contain colon
         NoURL
    ELSE IF /\ (gs.scheme # EmptyStr \/ ~HasPrefix(rest, <<"/", "/", "/">>))
            /\ HasPrefix(rest, <<"/", "/">>)
    THEN Only({LET authority == IF i = 0 THEN after ELSE SubSeq(after, 1, i - 1)
                   path      == IF i = 0 THEN EmptyStr ELSE SubSeq(after, i, Len(after))
               IN  Only({IF ~au.ok THEN NoURL
                         ELSE [ok |-> TRUE, Scheme |-> gs.scheme,
                               hasUser |-> au.hasUser, User |-> au.user,
                               Host |-> au.host, Path |-> path, Opaque |-> EmptyStr] :
                         au \in {ParseAuthority(authority)}}) :
               after \in {SubSeq(rest, 3, Len(rest))},
               i \in {IndexOf(SubSeq(rest, 3, Len(rest)), "/")}})
    ELSE [NoURL EXCEPT !.ok = TRUE, !.Scheme = gs.scheme, !.Path = rest]

\* url.Parse: [ok, Scheme, hasUser, User, Host, Path, Opaque].
UrlParse(rawURL) == Only({UrlParseRest(gs) : gs \in {GetScheme(rawURL)}})

(***************************************************************************)
(* internal/gitutil/url.go                                                 *)
(***************************************************************************)
\* The character classes of scpLikeURLRegex.
UserClass == Letters \cup Digits \cup {"_", ".", "-"}

HostClass == Letters \cup Digits \cup {".", "-"}

\* The match of scpLikeURLRegex on s when its first '@' is at position at
\* (the user class has no '@', so the user ends at the first one; the host
\* class has no ':', so the host ends at the first one after it).
ScpSplit(s, at) ==
    Only({LET user == SubSeq(s, 1, at - 1)
              host == SubSeq(after, 1, col - 1)
          IN  Only({[matched |-> ok,
                     user    |-> IF ok THEN user ELSE EmptyStr,
                     host    |-> IF ok THEN host ELSE EmptyStr,
                     path    |-> IF ok THEN SubSeq(after, col + 1, Len(after))
                                 ELSE EmptyStr] :
                    ok \in {/\ at > 1
                            /\ \A i \in 1..Len(user) : user[i] \in UserClass
                            /\ col > 1
                            /\ \A i \in 1..Len(host) : host[i] \in HostClass}}) :
          after \in {SubSeq(s, at + 1, Len(s))},
          col \in {IndexOf(SubSeq(s, at + 1, Len(s)), ":")}})

\* scpLikeURLRegex.FindStringSubmatch: [matched, user, host, path] for
\* ^([a-zA-Z0-9_.-]+)@([a-zA-Z0-9.-]+):(.*)$
ScpMatch(str) == Only({ScpSplit(s, at) : s \in {str}, at \in {IndexOf(str, "@")}})

SchemeSSH == <<"s", "s", "h">>

SchemeHTTP == <<"h", "t", "t", "p">>

SchemeHTTPS == <<"h", "t", "t", "p", "s">>

SchemeGit == <<"g", "i", "t">>

SchemeFile == <<"f", "i", "l", "e">>

\* The placeholder domain of local paths.
LocalDomain == <<"l", "o", "c", "a", "l">>

\* The nil *ParsedGitURL returned with an error.
NilParsed ==
    [ok |-> FALSE, OriginalURL |-> EmptyStr, Scheme |-> EmptyStr,
     User |-> EmptyStr, Host |-> EmptyStr, Domain |-> EmptyStr,
     Path |-> EmptyStr, RepoName |-> EmptyStr, IsSSH |-> FALSE]

\* ParseGitURL, the SCP-like branch (returns before the post-condition check).
ParseScpLike(repoURL, m) ==
    Only({[ok |-> TRUE, OriginalURL |-> repoURL, Scheme |-> SchemeSSH,
           User |-> m.user, Host |-> m.host, Domain |-> m.host,
           Path |-> path, RepoName |-> TrimSuffix(Base(path), DotGit),
           IsSSH |-> TRUE] : path \in {TrimPrefix(m.path, <<"/">>)}})

\* The ParsedGitURL built from the parsed standard URL u.
ParsedFrom(repoURL, u) ==
    Only({[ok |-> TRUE, OriginalURL |-> repoURL, Scheme |-> u.Scheme,
           User |-> u.User, Host |-> u.Host, Domain |-> Hostname(u.Host),
           Path |-> path, RepoName |-> TrimSuffix(Base(path), DotGit),
           IsSSH |-> FALSE] : path \in {TrimPrefix(u.Path, <<"/">>)}})

\* The switch on the scheme.
SchemeCase(repoURL, u, p0) ==
    IF u.Scheme = SchemeSSH THEN [p0 EXCEPT !.IsSSH = TRUE]
    ELSE IF u.Scheme \in {SchemeHTTP, SchemeHTTPS, SchemeGit} THEN p0
    ELSE IF u.Scheme = EmptyStr /\ Contains(repoURL, ":") THEN NilParsed
    ELSE IF u.Scheme = EmptyStr
    THEN Only({[p0 EXCEPT !.Scheme = SchemeFile, !.Path = lp,
                          !.RepoName = TrimSuffix(Base(lp), DotGit),
                          !.Domain = LocalDomain, !.User = EmptyStr] :
               lp \in {TrimSuffix(repoURL, DotGit)}})
    ELSE p0

\* ParseGitURL, the standard-URL branch with its scheme cases and the final
\* check that domain and repository name are not empty.
ParseStandard(repoURL) ==
    Only({IF ~u.ok THEN NilParsed
          ELSE Only({IF ~p1.ok THEN NilParsed
                     ELSE IF p1.Domain = EmptyStr \/ p1.RepoName = EmptyStr
                     THEN NilParsed
                     ELSE p1 :
                     p1 \in {Only({SchemeCase(repoURL, u, p0) :
                                    p0 \in {ParsedFrom(repoURL, u)}})}}) :
          u \in {UrlParse(repoURL)}})

\* ParseGitURL: the SCP-like pattern is tried first.
ParseGitURL(repoURL) ==
    Only({IF m.matched THEN ParseScpLike(raw, m) ELSE ParseStandard(raw) :
          raw \in {repoURL}, m \in {ScpMatch(repoURL)}})

\* ParsedGitURL.GetLocalPath
GetLocalPath(pu, fussyGitHome) ==
    Only({FilepathJoin(<<fussyGitHome, p.Domain, p.Path>>) : p \in {pu}})

\* ParsedGitURL.GetNormalizedFSPath
GetNormalizedFSPath(pu) ==
    Only({FilepathJoin(<<p.Domain, p.Path>>) : p \in {pu}})

\* ParsedGitURL.ToSSH: [ok, url].
ToSSH(pu) ==
    IF pu.IsSSH THEN [ok |-> TRUE, url |-> pu.OriginalURL]
    ELSE IF pu.Scheme \in {SchemeHTTPS, SchemeHTTP}
    THEN IF pu.Domain = EmptyStr \/ pu.Path = EmptyStr
         THEN [ok |-> FALSE, url |-> EmptyStr]
         ELSE LET sshPath == IF HasSuffix(pu.Path, DotGit) THEN pu.Path
                             ELSE pu.Path \o DotGit
                  sshUser == IF pu.User # EmptyStr /\ pu.Scheme = SchemeSSH
                             THEN pu.User ELSE SchemeGit
              IN  [ok |-> TRUE,
                   url |-> sshUser \o <<"@">> \o pu.Domain \o <<":">> \o sshPath]
    ELSE [ok |-> FALSE, url |-> EmptyStr]

\* A conversion that keeps the path as it is, ".git" included.
ToHTTPSKeepSuffix(pu) ==
    IF ~pu.IsSSH /\ pu.Scheme \in {SchemeHTTPS, SchemeHTTP}
    THEN [ok |-> TRUE, url |-> pu.OriginalURL]
    ELSE IF pu.Scheme \in {SchemeSSH, SchemeGit}
    THEN IF pu.Domain = EmptyStr \/ pu.Path = EmptyStr
         THEN [ok |-> FALSE, url |-> EmptyStr]
         ELSE [ok |-> TRUE,
               url |-> SchemeHTTPS \o <<":", "/", "/">> \o pu.Domain \o <<"/">>
                       \o pu.Path]
    ELSE [ok |-> FALSE, url |-> EmptyStr]

\* ParsedGitURL.ToHTTPS: [ok, url].
ToHTTPS(pu) ==
    IF ~pu.IsSSH /\ pu.Scheme \in {SchemeHTTPS, SchemeHTTP}
    THEN [ok |-> TRUE, url |-> pu.OriginalURL]
    ELSE IF pu.Scheme \in {SchemeSSH, SchemeGit}
    THEN IF pu.Domain = EmptyStr \/ pu.Path = EmptyStr
         THEN [ok |-> FALSE, url |-> EmptyStr]
         ELSE [ok |-> TRUE,
               url |-> SchemeHTTPS \o <<":", "/", "/">> \o pu.Domain \o <<"/">>
                       \o TrimSuffix(pu.Path, DotGit)]
    ELSE [ok |-> FALSE, url |-> EmptyStr]

(***************************************************************************)
(* The directories on disk.  A file system is a function from the clean    *)
(* absolute paths that exist to their node: a directory that is or is not  *)
(* the root of a git work tree, with the URL of its "origin" remote (the   *)
(* empty string when no origin is configured).                             *)
(***************************************************************************)
PlainDir == [repo |-> FALSE, origin |-> EmptyStr]

RepoDir(url) == [repo |-> TRUE, origin |-> url]

\* os.Stat(p) finds something (its error is not IsNotExist).
Exists(f, p) == p # EmptyStr /\ Clean(p) \in DOMAIN f

\* q is p or lies below p.
Under(q, p) == q = p \/ HasPrefix(q, p \o <<"/">>)

\* The directories above p, the root excluded.
RECURSIVE Ancestors(_)
Ancestors(p) ==
    UNION {IF d = <<"/">> \/ d = <<".">> \/ d = p THEN {} ELSE {d} \cup Ancestors(d) :
           d \in {Dir(p)}}

\* os.MkdirAll(p): p and the directories above it are created where missing.
MkdirAll(f, p) ==
    Only({[q \in DOMAIN f \cup want |-> IF q \in DOMAIN f THEN f[q] ELSE PlainDir] :
          want \in {UNION {({c} \cup Ancestors(c)) \ {<<"/">>} : c \in {Clean(p)}}}})

\* rename(2) refuses: a missing source, a missing parent of the target, a
\* target inside the source, a target that is a directory with entries.
RenameRefused(f, old, new) ==
    \E o \in {Clean(old)}, n \in {Clean(new)} :
        \/ ~Exists(f, old)
        \/ (Dir(n) # <<"/">> /\ Dir(n) \notin DOMAIN f)
        \/ (n # o /\ Under(n, o))
        \/ (n \in DOMAIN f /\ \E q \in DOMAIN f : q # n /\ Under(q, n))

\* os.Rename(old, new) when it succeeds: the directory and all below it move.
Rename(f, old, new) ==
    Only({LET moved == {q \in DOMAIN f : Under(q, o)}
              kept  == (DOMAIN f \ moved) \ {n}
              to(q) == n \o SubSeq(q, Len(o) + 1, Len(q))
              from(r) == CHOOSE q \in moved : to(q) = r
          IN  [r \in kept \cup {to(q) : q \in moved} |->
                  IF r \in kept THEN f[r] ELSE f[from(r)]] :
          o \in {Clean(old)}, n \in {Clean(new)}})

\* The work tree a path lies in: the deepest repository at or above it.
WorkTrees(f, p) ==
    UNION {{q \in DOMAIN f : f[q].repo /\ Under(c, q)} : c \in {Clean(p)}}

WorkTree(f, p) ==
    Only({CHOOSE q \in trees : \A r \in trees : Len(r) <= Len(q) :
          trees \in {WorkTrees(f, p)}})

\* gitutil.IsGitRepository: a .git directory in the path, or git rev-parse
\* saying the path is inside a work tree.
IsGitRepository(f, p) == Exists(f, p) /\ WorkTrees(f, p) # {}

\* gitutil.GetRemoteOriginURL: [ok, url]; an empty origin is an error.
GetRemoteOriginURL(f, p) ==
    IF ~IsGitRepository(f, p) THEN [ok |-> FALSE, url |-> EmptyStr]
    ELSE Only({IF origin = EmptyStr THEN [ok |-> FALSE, url |-> EmptyStr]
               ELSE [ok |-> TRUE, url |-> origin] :
               origin \in {f[WorkTree(f, p)].origin}})

(***************************************************************************)
(* internal/state: RepositoryEntry and the operations of RepoState.        *)
(* A time.Time is a natural number, 0 being the zero time.                 *)
(***************************************************************************)
\* A RepositoryEntry with every field given.
Entry(name, path, orig, cur, dom, nfs, checked, modified, cloned, manual, notes) ==
    [Name |-> name, Path |-> path, OriginalURL |-> orig, CurrentURL |-> cur,
     Domain |-> dom, NormalizedFS |-> nfs, LastChecked |-> checked,
     LastModified |-> modified, ClonedAt |-> cloned, ManuallyAdded |-> manual,
     Notes |-> notes]

\* The positions of the entries whose Path is path.
IndexesOfPath(rs, path) == {i \in 1..Len(rs) : rs[i].Path = path}

\* The first position whose entry has the path (the loops return at it).
FirstIndexOfPath(rs, path) ==
    CHOOSE i \in IndexesOfPath(rs, path) : \A j \in IndexesOfPath(rs, path) : i <= j

\* AddRepository's stamping of the incoming entry with now.
StampNew(entry, now) ==
    [entry EXCEPT !.LastModified = now,
                  !.ClonedAt = IF entry.ClonedAt = 0 THEN now ELSE entry.ClonedAt,
                  !.LastChecked = IF entry.LastChecked = 0 THEN now ELSE entry.LastChecked]

\* The fields an incoming entry takes from the entry r it replaces.
CarryForward(entry, r) ==
    [entry EXCEPT !.OriginalURL = IF entry.OriginalURL = EmptyStr
                                  THEN r.OriginalURL ELSE entry.OriginalURL,
                  !.ClonedAt = IF entry.ClonedAt = 0 THEN r.ClonedAt ELSE entry.ClonedAt]

\* An AddRepository that appends without looking for the path.
AppendAlways(rs, entry, now) ==
    [repos |-> Append(rs, StampNew(entry, now)), err |-> "nil"]

\* An AddRepository that takes every entry, whatever its fields hold.
AddUnvalidated(rs, entry, now) ==
    LET stamped == StampNew(entry, now) IN
    IF IndexesOfPath(rs, stamped.Path) # {}
    THEN LET i == FirstIndexOfPath(rs, stamped.Path) IN
         [repos |-> [rs EXCEPT ![i] = CarryForward(stamped, rs[i])], err |-> "nil"]
    ELSE [repos |-> Append(rs, stamped), err |-> "nil"]

\* RepoState.AddRepository: [repos, err].
AddRepository(rs, entry, now) ==
    IF entry.Path = EmptyStr THEN [repos |-> rs, err |-> "empty path"]
    ELSE IF entry.OriginalURL = EmptyStr THEN [repos |-> rs, err |-> "empty original URL"]
    ELSE LET stamped == StampNew(entry, now) IN
         IF IndexesOfPath(rs, stamped.Path) # {}
         THEN LET i == FirstIndexOfPath(rs, stamped.Path) IN
              [repos |-> [rs EXCEPT ![i] = CarryForward(stamped, rs[i])], err |-> "nil"]
         ELSE [repos |-> Append(rs, stamped), err |-> "nil"]

\* RepoState.FindRepositoryByPath: [found, entry].
FindRepositoryByPath(rs, path) ==
    IF IndexesOfPath(rs, path) # {}
    THEN [found |-> TRUE, entry |-> rs[FirstIndexOfPath(rs, path)]]
    ELSE [found |-> FALSE, entry |-> << >>]

\* RepoState.FindRepositoryByOriginalURL: [found, entry].
FindRepositoryByOriginalURL(rs, url) ==
    LET hits == {i \in 1..Len(rs) : rs[i].OriginalURL = url} IN
    IF hits # {}
    THEN [found |-> TRUE, entry |-> rs[CHOOSE i \in hits : \A j \in hits : i <= j]]
    ELSE [found |-> FALSE, entry |-> << >>]

\* A removal that drops every entry with the path.
RemoveEveryMatch(rs, path) ==
    [repos |-> SelectSeq(rs, LAMBDA e : e.Path # path),
     removed |-> IndexesOfPath(rs, path) # {}]

\* RepoState.RemoveRepositoryByPath: [repos, removed].
RemoveRepositoryByPath(rs, path) ==
    IF IndexesOfPath(rs, path) # {}
    THEN LET i == FirstIndexOfPath(rs, path) IN
         [repos |-> SubSeq(rs, 1, i - 1) \o SubSeq(rs, i + 1, Len(rs)),
          removed |-> TRUE]
    ELSE [repos |-> rs, removed |-> FALSE]

\* An UpdateRepository that stores the incoming entry as it comes.
UpdateWithoutCarry(rs, updatedEntry, now) ==
    IF updatedEntry.Path = EmptyStr THEN [repos |-> rs, err |-> "empty path"]
    ELSE IF IndexesOfPath(rs, updatedEntry.Path) # {}
    THEN LET i == FirstIndexOfPath(rs, updatedEntry.Path)
             e == [updatedEntry EXCEPT !.LastModified = now]
         IN  [repos |-> [rs EXCEPT ![i] = e], err |-> "nil"]
    ELSE [repos |-> rs, err |-> "not found"]

\* RepoState.UpdateRepository: [repos, err].
UpdateRepository(rs, updatedEntry, now) ==
    IF updatedEntry.Path = EmptyStr THEN [repos |-> rs, err |-> "empty path"]
    ELSE IF IndexesOfPath(rs, updatedEntry.Path) # {}
    THEN LET i == FirstIndexOfPath(rs, updatedEntry.Path)
             e == [CarryForward(updatedEntry, rs[i]) EXCEPT !.LastModified = now]
         IN  [repos |-> [rs EXCEPT ![i] = e], err |-> "nil"]
    ELSE [repos |-> rs, err |-> "not found"]

(***************************************************************************)
(* cmd/reorganize.go: one iteration of RunE's loop over the entries.       *)
(*                                                                         *)
(* The calls that leave the process can fail for reasons the model does    *)
(* not hold in its state (permissions, a failing git binary, a full disk): *)
(* the iteration takes the failure of at most one of them as an input.     *)
(***************************************************************************)
Faults == {"none", "stat", "remote", "targetStat", "mkdir", "rename"}

\* appConfig.FussyGitHome
FussyGitHome == <<"/", "r">>

\* A run that ignores the --dry-run flag.
IgnoreDryRun(dry) == TRUE

\* The guard "if !dryRunReorg" in front of every change.
NotDryRun(dry) == ~dry

\* A comparison of the stored and the live URL as they are written.
UrlTextDiffers(storedURL, liveURL) == storedURL # liveURL

\* The comparison of the stored and the live URL, both in HTTPS form: the
\* stored URL does not parse, or the two forms differ (a failed conversion
\* gives the empty string).
UrlDrift(storedURL, liveURL) ==
    \E parsedLive \in {ParseGitURL(liveURL)}, parsedStored \in {ParseGitURL(storedURL)} :
        LET liveHTTPS   == ToHTTPS(parsedLive).url
            storedHTTPS == IF parsedStored.ok THEN ToHTTPS(parsedStored).url
                           ELSE EmptyStr
        IN  ~parsedStored.ok \/ liveHTTPS # storedHTTPS

\* A URL update that rewrites OriginalURL whatever it was.
UpdateBothURLs(e, liveURL) ==
    [e EXCEPT !.CurrentURL = liveURL, !.OriginalURL = liveURL]

\* A URL update that also re-derives the fields computed from the URL.
UpdateUrlAndDerived(e, liveURL) ==
    LET pu == ParseGitURL(liveURL) IN
    [e EXCEPT !.CurrentURL = liveURL,
              !.OriginalURL = IF e.OriginalURL = e.CurrentURL THEN liveURL
                              ELSE e.OriginalURL,
              !.Domain = pu.Domain,
              !.NormalizedFS = GetNormalizedFSPath(pu)]

\* The update of the entry when the URL changed and the run is not a dry run.
ApplyUrlUpdate(e, liveURL) ==
    [e EXCEPT !.CurrentURL = liveURL,
              !.OriginalURL = IF e.OriginalURL = e.CurrentURL THEN liveURL
                              ELSE e.OriginalURL]

\* The actual and the conventional path differ once both are cleaned and
\* stripped of trailing separators.
PathMismatch(actual, conventional) ==
    TrimRightSlash(Clean(actual)) # TrimRightSlash(Clean(conventional))

\* A pre-move check that does not look at what is on disk.
StatFaultOnly(f, conventional, fault) == fault = "targetStat"

\* The pre-move check: os.Stat of the conventional path does not say
\* "not exist" (it found something, or failed for another reason).
TargetConflict(f, conventional, fault) ==
    fault = "targetStat" \/ Exists(f, conventional)

\* An iteration that leaves the name as it is.
KeepName(e, parsed) == e

\* The name update after the path check.
ApplyName(e, parsed) ==
    IF e.Name # parsed.RepoName THEN [e EXCEPT !.Name = parsed.RepoName] ELSE e

\* An iteration that drops the entry it skips.
SkippedAndDropped(e, f, why) ==
    [entry |-> e, fs |-> f, kept |-> FALSE, outcome |-> why, proposed |-> 0,
     taken |-> 0, modified |-> FALSE, conflict |-> FALSE, mkdir |-> FALSE,
     renameTried |-> FALSE, renameTo |-> EmptyStr, moved |-> FALSE,
     remoteCalls |-> 0, drift |-> FALSE, live |-> EmptyStr]

\* An iteration that refreshes LastChecked of the entry it skips.
SkippedAndStamped(e, f, why) ==
    [entry |-> [e EXCEPT !.LastChecked = e.LastChecked + 1], fs |-> f,
     kept |-> TRUE, outcome |-> why, proposed |-> 0,
     taken |-> 0, modified |-> FALSE, conflict |-> FALSE, mkdir |-> FALSE,
     renameTried |-> FALSE, renameTo |-> EmptyStr, moved |-> FALSE,
     remoteCalls |-> 0, drift |-> FALSE, live |-> EmptyStr]

\* What an iteration that skips its entry hands back: the entry is appended
\* to updatedRepositories as it is (kept) and the loop continues.
Skipped(e, f, why) ==
    [entry |-> e, fs |-> f, kept |-> TRUE, outcome |-> why, proposed |-> 0,
     taken |-> 0, modified |-> FALSE, conflict |-> FALSE, mkdir |-> FALSE,
     renameTried |-> FALSE, renameTo |-> EmptyStr, moved |-> FALSE,
     remoteCalls |-> 0, drift |-> FALSE, live |-> EmptyStr]

\* A move that records the conventional path whether or not the rename
\* succeeded.
MoveRepoOptimistic(e, f, conventional, fault) ==
    IF TargetConflict(f, conventional, fault)
    THEN [entry |-> e, fs |-> f, conflict |-> TRUE, mkdir |-> FALSE,
          renameTried |-> FALSE, moved |-> FALSE,
          why |-> IF Exists(f, conventional) THEN "conflict" ELSE "targetStatError"]
    ELSE IF fault = "mkdir"
    THEN [entry |-> e, fs |-> f, conflict |-> FALSE, mkdir |-> TRUE,
          renameTried |-> FALSE, moved |-> FALSE, why |-> "mkdirError"]
    ELSE Only({IF fault = "rename" \/ RenameRefused(f1, e.Path, conventional)
               THEN [entry |-> [e EXCEPT !.Path = conventional], fs |-> f1,
                     conflict |-> FALSE, mkdir |-> TRUE,
                     renameTried |-> TRUE, moved |-> FALSE,
                     why |-> IF RenameRefused(f1, e.Path, conventional)
                             THEN "renameRefused" ELSE "renameError"]
               ELSE [entry |-> [e EXCEPT !.Path = conventional],
                     fs |-> Rename(f1, e.Path, conventional),
                     conflict |-> FALSE, mkdir |-> TRUE, renameTried |-> TRUE,
                     moved |-> TRUE, why |-> "moved"] :
               f1 \in {MkdirAll(f, Dir(conventional))}})

\* The move of the repository to its conventional path (not a dry run):
\* conflict check, MkdirAll of the parent, os.Rename.
\* [entry, fs, conflict, mkdir, renameTried, moved, why]; why tells an
\* observer which branch was taken and whether a failing call took it there.
MoveRepo(e, f, conventional, fault) ==
    IF TargetConflict(f, conventional, fault)
    THEN [entry |-> e, fs |-> f, conflict |-> TRUE, mkdir |-> FALSE,
          renameTried |-> FALSE, moved |-> FALSE,
          why |-> IF Exists(f, conventional) THEN "conflict" ELSE "targetStatError"]
    ELSE IF fault = "mkdir"
    THEN [entry |-> e, fs |-> f, conflict |-> FALSE, mkdir |-> TRUE,
          renameTried |-> FALSE, moved |-> FALSE, why |-> "mkdirError"]
    ELSE Only({IF fault = "rename" \/ RenameRefused(f1, e.Path, conventional)
               THEN [entry |-> e, fs |-> f1, conflict |-> FALSE, mkdir |-> TRUE,
                     renameTried |-> TRUE, moved |-> FALSE,
                     why |-> IF RenameRefused(f1, e.Path, conventional)
                             THEN "renameRefused" ELSE "renameError"]
               ELSE [entry |-> [e EXCEPT !.Path = conventional],
                     fs |-> Rename(f1, e.Path, conventional),
                     conflict |-> FALSE, mkdir |-> TRUE, renameTried |-> TRUE,
                     moved |-> TRUE, why |-> "moved"] :
               f1 \in {MkdirAll(f, Dir(conventional))}})

\* No move: a dry run, or a path that is the conventional one.
NoMove(e, f) ==
    [entry |-> e, fs |-> f, conflict |-> FALSE, mkdir |-> FALSE,
     renameTried |-> FALSE, moved |-> FALSE, why |-> "none"]

\* The end of the iteration: the name update, the counters and the append.
\* e1 is the entry after the URL check, mv what the path check did.
EndOfIteration(e1, dry, drift, final, conventional, mismatch, mv) ==
    LET p1 == IF drift THEN 1 ELSE 0
        t1 == IF drift /\ NotDryRun(dry) THEN 1 ELSE 0
        e3 == ApplyName(mv.entry, final)
    IN  [entry |-> e3, fs |-> mv.fs, kept |-> TRUE,
         outcome |-> IF mv.why # "none" THEN mv.why
                     ELSE IF mismatch THEN "moveProposed"
                     ELSE IF drift THEN "urlChanged"
                     ELSE "checked",
         proposed |-> p1 + (IF mismatch THEN 1 ELSE 0),
         taken |-> t1 + (IF mv.moved THEN 1 ELSE 0),
         modified |-> (t1 = 1) \/ mv.moved
                      \/ (NotDryRun(dry) /\ e3.Name # mv.entry.Name),
         conflict |-> mv.conflict, mkdir |-> mv.mkdir,
         renameTried |-> mv.renameTried, renameTo |-> conventional,
         moved |-> mv.moved, remoteCalls |-> 1, drift |-> drift,
         live |-> EmptyStr]

\* The path reorganization check for the entry e1 the URL check left.
PathCheck(e1, f, dry, fault, drift, final) ==
    IF ~final.ok
    THEN [Skipped(e1, f, "noConventionalPath") EXCEPT
            !.proposed = IF drift THEN 1 ELSE 0,
            !.taken = IF drift /\ NotDryRun(dry) THEN 1 ELSE 0,
            !.modified = drift /\ NotDryRun(dry),
            !.remoteCalls = 1,
            !.drift = drift]
    ELSE Only({Only({Only({EndOfIteration(e1, dry, drift, final, conventional,
                                          mismatch, mv) :
                           mv \in {IF mismatch /\ NotDryRun(dry)
                                   THEN MoveRepo(e1, f, conventional, fault)
                                   ELSE NoMove(e1, f)}}) :
                     mismatch \in {PathMismatch(e1.Path, conventional)}}) :
               conventional \in {GetLocalPath(final, FussyGitHome)}})

\* The URL check for a repository whose origin is liveURL.
UrlCheck(e, f, dry, fault, liveURL) ==
    IF ~ParseGitURL(liveURL).ok
    THEN [Skipped(e, f, "liveUnparsable") EXCEPT !.remoteCalls = 1]
    ELSE Only({Only({Only({[PathCheck(e1, f, dry, fault, drift, final)
                               EXCEPT !.live = liveURL] :
                           final \in {ParseGitURL(e1.CurrentURL)}}) :
                     e1 \in {IF drift /\ NotDryRun(dry) THEN ApplyUrlUpdate(e, liveURL)
                             ELSE e}}) :
               drift \in {UrlDrift(e.CurrentURL, liveURL)}})

\* The body of the loop for one entry.
ReorgEntry(e, f, dry, fault) ==
    IF fault # "stat" /\ ~Exists(f, e.Path) THEN Skipped(e, f, "missing")
    ELSE IF fault = "stat" THEN Skipped(e, f, "statError")
    ELSE IF ~IsGitRepository(f, e.Path) THEN Skipped(e, f, "notRepo")
    ELSE Only({IF ~live.ok THEN [Skipped(e, f, "remoteError") EXCEPT !.remoteCalls = 1]
               ELSE UrlCheck(e, f, dry, fault, live.url) :
               live \in {IF fault = "remote" THEN [ok |-> FALSE, url |-> EmptyStr]
                         ELSE GetRemoteOriginURL(f, e.Path)}})

(***************************************************************************)
(* The state file and its temporary sibling.  A file that exists holds two *)
(* chunks, written one after the other; a chunk is empty or holds the      *)
(* document it was written from.  A file whose two chunks hold the same    *)
(* document is that document, complete; anything else is a truncated or    *)
(* mixed file.                                                             *)
(***************************************************************************)
Absent == [exists |-> FALSE, c1 |-> << >>, c2 |-> << >>]

\* A file just created or truncated: len(data) = 0.
EmptyFile == [exists |-> TRUE, c1 |-> << >>, c2 |-> << >>]

\* A file whose write stopped half way.
HalfFile(doc) == [exists |-> TRUE, c1 |-> <<doc>>, c2 |-> << >>]

\* A file holding all of doc.
FileOf(doc) == [exists |-> TRUE, c1 |-> <<doc>>, c2 |-> <<doc>>]

\* A file that json.Unmarshal reads as a document.
IsComplete(file) == file.exists /\ file.c1 # << >> /\ file.c1 = file.c2

\* A byte that is not part of any valid UTF-8 sequence, as a file name on
\* disk can hold.
InvalidByte == "xFF"

\* U+FFFD, the replacement character.
ReplacementChar == "uFFFD"

\* encoding/json writing a Go string: every byte that is not valid UTF-8
\* is written as U+FFFD; every other character is read back as itself.
EncodeString(s) ==
    [i \in 1..Len(s) |-> IF s[i] = InvalidByte THEN ReplacementChar ELSE s[i]]

\* encoding/json writing a RepositoryEntry: its strings encoded, its times
\* in RFC 3339 with nanoseconds (the instant is kept), its bool as it is.
\* Notes are whole texts in this model and always valid.
EncodeEntry(e) ==
    [e EXCEPT !.Name = EncodeString(@), !.Path = EncodeString(@),
              !.OriginalURL = EncodeString(@), !.CurrentURL = EncodeString(@),
              !.Domain = EncodeString(@), !.NormalizedFS = EncodeString(@)]

\* json.MarshalIndent of the RepoState: the exported field only.
Marshal(rs) ==
    [repositories |-> IF rs = << >> THEN << >>
                      ELSE [k \in 1..Len(rs) |-> EncodeEntry(rs[k])]]

\* json.Unmarshal into the RepoState.
Unmarshal(doc) == doc.repositories

SaveFaults == {"none", "mkdir", "write", "rename"}

\* A pass that saves whenever it is not a dry run.
SaveUnlessDryRun(modified, dry) == ~dry

\* The decision to persist at the end of the pass.
ShouldSave(modified, dry) == modified /\ ~dry

\* RepoState.saveLocked run to its end without another process in between:
\* [files, err].  A failed write leaves what it wrote in the temp file; a
\* failed rename removes the temp file.
SaveLocked(fl, rs, fault) ==
    IF fault = "mkdir" THEN [files |-> fl, err |-> "mkdir"]
    ELSE IF fault = "write"
    THEN [files |-> [fl EXCEPT !.tmp = HalfFile(Marshal(rs))], err |-> "write"]
    ELSE IF fault = "rename"
    THEN [files |-> [fl EXCEPT !.tmp = Absent], err |-> "rename"]
    ELSE [files |-> [state |-> FileOf(Marshal(rs)), tmp |-> Absent], err |-> "nil"]

\* The JSON value null as the content of the file.
NullDoc == [null |-> TRUE]

\* A JSON value that is no object (an array, a string, a number).
WrongShapeDoc == [array |-> << >>]

\* The calls of LoadState that can fail for a reason of the disk's: os.Stat,
\* os.Open and io.ReadAll besides those of saveLocked.
LoadFaults == SaveFaults \cup {"stat", "open", "read"}

\* What LoadState hands back: the error ("nil", "io", "syntax", "type"),
\* whether the *RepoState returned without error is nil, the collection and
\* the files.
Loaded(err, nilStore, rs, fl) ==
    [ok |-> err = "nil", err |-> err, nilStore |-> nilStore, repos |-> rs,
     files |-> fl]

\* A LoadState that leaves a missing state file missing.
LoadWithoutCreate(fl, fault) ==
    IF fault = "stat" THEN Loaded("io", FALSE, << >>, fl)
    ELSE IF ~fl.state.exists THEN Loaded("nil", FALSE, << >>, fl)
    ELSE IF fault \in {"open", "read"} THEN Loaded("io", FALSE, << >>, fl)
    ELSE IF fl.state = EmptyFile THEN Loaded("nil", FALSE, << >>, fl)
    ELSE IF ~IsComplete(fl.state) THEN Loaded("syntax", FALSE, << >>, fl)
    ELSE IF fl.state.c1[1] = NullDoc THEN Loaded("nil", TRUE, << >>, fl)
    ELSE IF fl.state.c1[1] = WrongShapeDoc THEN Loaded("type", FALSE, << >>, fl)
    ELSE Loaded("nil", FALSE, Unmarshal(fl.state.c1[1]), fl)

\* state.LoadState.  A missing file gives an empty store and is created at
\* once (MkdirAll, then saveLocked); an empty file gives an empty store; a
\* file that is cut short is a json.SyntaxError, a JSON value of another
\* shape an UnmarshalTypeError; the JSON value null sets the pointer
\* json.Unmarshal was handed (&rs) to nil and is no error.
LoadState(fl, fault) ==
    IF fault = "stat" THEN Loaded("io", FALSE, << >>, fl)
    ELSE IF ~fl.state.exists
    THEN LET sv == SaveLocked(fl, << >>, fault) IN
         Loaded(IF sv.err = "nil" THEN "nil" ELSE "io", FALSE, << >>, sv.files)
    ELSE IF fault \in {"open", "read"} THEN Loaded("io", FALSE, << >>, fl)
    ELSE IF fl.state = EmptyFile THEN Loaded("nil", FALSE, << >>, fl)
    ELSE IF ~IsComplete(fl.state) THEN Loaded("syntax", FALSE, << >>, fl)
    ELSE IF fl.state.c1[1] = NullDoc THEN Loaded("nil", TRUE, << >>, fl)
    ELSE IF fl.state.c1[1] = WrongShapeDoc THEN Loaded("type", FALSE, << >>, fl)
    ELSE Loaded("nil", FALSE, Unmarshal(fl.state.c1[1]), fl)

(***************************************************************************)
(* The state.                                                              *)
(***************************************************************************)
VARIABLES
    fs,                    \* the directories on disk
    files,                 \* the state file and its temp file
    clock,                 \* the last reading of time.Now
    repos,                 \* repoState.Repositories of the running process
    pc,                    \* where the process is: idle, loop, done, crashed
    dryRunReorg,           \* the --dry-run flag of the pass
    next,                  \* the position in originalRepositories of the next entry
    originalRepositories,  \* RunE's copy of the collection
    updatedRepositories,   \* RunE's result collection
    stateModified,         \* RunE's locals
    actionsTaken,
    actionsProposed,
    runErr,                \* what RunE returned ("none" while it runs)
    obs,                   \* what an observer of the pass has seen
    store,                 \* a registry driven through the store's operations
    storeLog,              \* the last operation on store and its result
    saver,                 \* the concurrent savers, each in its own process
    mu,                    \* RepoState.mu: who holds the lock
    thread,                \* the goroutines calling the store in one process
    conv                   \* a URL and what the gitutil functions made of it

vars == <<fs, files, clock, repos, pc, dryRunReorg, next, originalRepositories,
          updatedRepositories, stateModified, actionsTaken, actionsProposed,
          runErr, obs, store, storeLog, saver, mu, thread, conv>>

passVars == <<repos, pc, dryRunReorg, next, originalRepositories,
              updatedRepositories, stateModified, actionsTaken, actionsProposed,
              runErr, obs>>

storeVars == <<store, storeLog, clock>>

(***************************************************************************)
(* Bounds and the values the initial states are drawn from.                *)
(***************************************************************************)
\* The longest registry an initial state holds.
MaxEntries == 2

\* The number of reorganize runs in a behaviour.
MaxPasses == 2

\* The number of runs that are killed before their end.
MaxCrashes == 1

\* The number of store operations in a behaviour (each reads the clock once).
MaxOps == 3

\* The number of processes saving to the same state file.
MaxSavers == 2

\* The number of goroutines calling the store of one process, one call each.
MaxThreads == 2

\* The calls of the gitutil functions made on one URL.
MaxConv == 5

\* The clone and add commands run.
MaxCmds == 2

\* "https://h/a/b"
UrlB == <<"h", "t", "t", "p", "s", ":", "/", "/", "h", "/", "a", "/", "b">>

\* "git@h:a/b", the same repository in SCP-like form
UrlBScp == <<"g", "i", "t", "@", "h", ":", "a", "/", "b">>

\* "https://h/a/c"
UrlC == <<"h", "t", "t", "p", "s", ":", "/", "/", "h", "/", "a", "/", "c">>

\* "h:b", which ParseGitURL rejects
UrlBad == <<"h", ":", "b">>

\* "https://h/a/b.git"
UrlBGit == UrlB \o DotGit

\* "git@h:a/b.git"
UrlBScpGit == UrlBScp \o DotGit

\* "ssh://git@h/a/b"
UrlBSsh == <<"s", "s", "h", ":", "/", "/", "g", "i", "t", "@", "h", "/", "a", "/", "b">>

\* "ssh://git@h/a/b.git"
UrlBSshGit == UrlBSsh \o DotGit

\* "git@h:a/c", the SCP-like form of UrlC
UrlCScp == <<"g", "i", "t", "@", "h", ":", "a", "/", "c">>

\* The forms a stored and a live URL are compared in: one repository over
\* https, SCP-like and ssh://, each with and without ".git", and another
\* repository.
UrlForms == {UrlB, UrlBGit, UrlBScp, UrlBScpGit, UrlBSsh, UrlBSshGit, UrlC, UrlCScp}

\* "/w/b", outside the conventional layout
PathW == <<"/", "w", "/", "b">>

\* "/r/h/a/b", the conventional path of UrlB and UrlBScp
PathB == <<"/", "r", "/", "h", "/", "a", "/", "b">>

\* "/r/h/a/c", the conventional path of UrlC
PathC == <<"/", "r", "/", "h", "/", "a", "/", "c">>

\* An entry as clone and add build it from a URL, already stamped.
Tracked(name, path, orig, cur, manual, notes) ==
    LET pu == ParseGitURL(orig) IN
    Entry(name, path, orig, cur, pu.Domain, GetNormalizedFSPath(pu), 1, 1, 1,
          manual, notes)

\* The entries a persisted registry is drawn from; Notes tells them apart.
Candidates ==
    { Tracked(<<"b">>, PathW, UrlB, UrlB, TRUE, "n1"),
      Tracked(<<"b">>, PathB, UrlB, UrlB, FALSE, "n2"),
      Tracked(<<"c">>, PathC, UrlC, UrlC, FALSE, "n3"),
      Tracked(<<"x">>, PathW, UrlC, UrlBad, TRUE, "n4"),
      Tracked(<<"b">>, PathB, UrlC, UrlBScp, FALSE, "n5") }

\* No two entries have the same path.
UniquePaths(rs) ==
    \A i, j \in 1..Len(rs) : rs[i].Path = rs[j].Path => i = j

\* The registries of at most n entries with pairwise distinct paths.
RECURSIVE Registries(_)
Registries(n) ==
    IF n = 0 THEN {<< >>}
    ELSE Registries(n - 1) \cup
         {Append(rs, c) : rs \in {r \in Registries(n - 1) : Len(r) = n - 1},
                          c \in Candidates} 

InitRegistries == {rs \in Registries(MaxEntries) : UniquePaths(rs)}

\* What a directory of the initial disk can be: a working tree whose origin
\* is one of the URLs, or a directory that is no repository.
InitNodes == {PlainDir, RepoDir(UrlB), RepoDir(UrlC), RepoDir(UrlBad)}

DiskPaths == {PathW, PathB, PathC}

\* What is found at each of the paths when something is there.
NodesAt(q) ==
    IF q = PathW THEN {RepoDir(UrlB), RepoDir(UrlBad)}
    ELSE IF q = PathB THEN {PlainDir, RepoDir(UrlB), RepoDir(UrlC)}
    ELSE {RepoDir(UrlC)}

\* The disk with no directory but the root.
EmptyDisk == [q \in {} |-> PlainDir]

\* The disk with the chosen directories and the directories above them.
RECURSIVE DiskOf(_, _)
DiskOf(choice, paths) ==
    IF paths = {} THEN EmptyDisk
    ELSE LET q == CHOOSE q \in paths : TRUE IN
         [MkdirAll(DiskOf(choice, paths \ {q}), q) EXCEPT ![q] = choice[q]]

InitDisks ==
    UNION {{DiskOf(choice, present) :
                choice \in {c \in [present -> InitNodes] :
                               \A q \in present : c[q] \in NodesAt(q)}} :
           present \in SUBSET DiskPaths}

(***************************************************************************)
(* The reorganize command, one process per run.                            *)
(***************************************************************************)
\* What the observer knows before any run.
NoObs ==
    [passNo |-> 0,            \* the runs started so far
     crashes |-> 0,           \* the runs killed so far
     fs0 |-> EmptyDisk,       \* the disk when the run started
     files0 |-> [state |-> Absent, tmp |-> Absent],  \* the files then
     processed |-> << >>,     \* the positions the loop has handled, in order
     outcomes |-> << >>,      \* what happened to each of them
     targetExisted |-> {},    \* positions whose conventional path was on disk
     mismatched |-> {},       \* positions whose path was not the conventional one
     targets |-> {},          \* "Path mismatch" reports: [k, to]
     remoteCalls |-> << >>,   \* GetRemoteOriginURL calls of each iteration
     renames |-> {},          \* os.Rename calls: [k, to, ok]
     drifts |-> {},           \* "Remote URL changed" reports: [k, live]
     upserts |-> {},          \* Notes of the entries other callers upserted
     mkdirs |-> 0,            \* os.MkdirAll calls
     saves |-> 0,             \* Save calls
     saveFailed |-> FALSE,    \* a Save call returned an error
     prevApplied |-> FALSE,   \* the run before was an apply run that returned nil
                              \* and met no failing call
     orphans |-> {},          \* moves of a killed run: [k, to]
     resumed |-> 0,           \* apply runs completed since the kill
     overlap |-> FALSE,       \* a save began while another was under way
     cli |-> [n |-> 0, op |-> "none"]]  \* the last clone or add command

\* The observations reset at the start of a run.
ResetObs(o, f, fl, prevOK) ==
    [o EXCEPT !.passNo = @ + 1, !.fs0 = f, !.files0 = fl, !.processed = << >>,
              !.outcomes = << >>, !.targetExisted = {}, !.mismatched = {}, !.targets = {}, !.remoteCalls = << >>,
              !.renames = {}, !.drifts = {}, !.upserts = {}, !.mkdirs = 0, !.saves = 0, !.saveFailed = FALSE,
              !.prevApplied = prevOK]

\* The outcomes of an iteration that a failing call brought about (a call
\* that fails for a reason outside the registry and the directories).
FailedCalls == {"statError", "remoteError", "targetStatError", "mkdirError",
                "renameError"}

\* No call of the run so far has failed.
NoFailedCall ==
    /\ \A k \in 1..Len(obs.outcomes) : obs.outcomes[k] \notin FailedCalls
    /\ ~obs.saveFailed

\* The previous run, if any, was an apply run that returned nil and in
\* which no call failed.
PrevApplied == pc = "done" /\ ~dryRunReorg /\ runErr = "nil" /\ NoFailedCall

\* PersistentPreRunE loads the state file, then RunE starts: it returns at
\* once on an empty registry, else it copies the collection and enters the
\* loop.
Invoke(dry) ==
    /\ pc \in {"idle", "done", "crashed"}
    /\ obs.passNo < MaxPasses
    /\ LET ld == LoadState(files, "none") IN
       /\ ld.ok /\ ~ld.nilStore
       /\ files' = ld.files
       /\ repos' = ld.repos
       /\ dryRunReorg' = dry
       /\ originalRepositories' = ld.repos
       /\ updatedRepositories' = << >>
       /\ next' = 1
       /\ stateModified' = FALSE
       /\ actionsTaken' = 0
       /\ actionsProposed' = 0
       /\ obs' = ResetObs(obs, fs, ld.files, PrevApplied)
       /\ IF Len(ld.repos) = 0
          THEN pc' = "done" /\ runErr' = "nil"
          ELSE pc' = "loop" /\ runErr' = "none"
    /\ UNCHANGED <<fs, store, storeLog, clock, saver, mu, thread, conv>>

\* One iteration of the loop.
ProcessEntry(fault) ==
    /\ pc = "loop"
    /\ next <= Len(originalRepositories)
    /\ \E r \in {ReorgEntry(originalRepositories[next], fs, dryRunReorg, fault)} :
       /\ fs' = r.fs
       /\ updatedRepositories' =
              IF r.kept THEN Append(updatedRepositories, r.entry)
              ELSE updatedRepositories
       /\ stateModified' = (stateModified \/ r.modified)
       /\ actionsTaken' = actionsTaken + r.taken
       /\ actionsProposed' = actionsProposed + r.proposed
       /\ obs' = [obs EXCEPT
              !.processed = Append(@, next),
              !.outcomes = Append(@, r.outcome),
              !.targetExisted =
                  IF r.renameTo # EmptyStr /\ Exists(fs, r.renameTo)
                  THEN @ \cup {next} ELSE @,
              !.mismatched =
                  IF /\ r.renameTo # EmptyStr
                     /\ Clean(originalRepositories[next].Path) # Clean(r.renameTo)
                  THEN @ \cup {next} ELSE @,
              !.remoteCalls = Append(@, r.remoteCalls),
              !.targets =
                  IF /\ r.renameTo # EmptyStr
                     /\ PathMismatch(originalRepositories[next].Path, r.renameTo)
                  THEN @ \cup {[k |-> next, to |-> r.renameTo]} ELSE @,
              !.renames =
                  IF r.renameTried
                  THEN @ \cup {[k |-> next, to |-> r.renameTo, ok |-> r.moved]}
                  ELSE @,
              !.drifts =
                  IF r.drift THEN @ \cup {[k |-> next, live |-> r.live]} ELSE @,
              !.mkdirs = IF r.mkdir THEN @ + 1 ELSE @]
    /\ next' = next + 1
    /\ UNCHANGED <<files, repos, pc, dryRunReorg, originalRepositories, runErr,
                   store, storeLog, clock, saver, mu, thread, conv>>

\* After the loop: the collection is replaced, the state saved if it was
\* modified and the run is not a dry run; a failed save is RunE's error.
FinishPass(fault) ==
    /\ pc = "loop"
    /\ next > Len(originalRepositories)
    /\ repos' = updatedRepositories
    /\ IF ShouldSave(stateModified, dryRunReorg)
       THEN LET sv == SaveLocked(files, updatedRepositories, fault) IN
            /\ files' = sv.files
            /\ runErr' = IF sv.err = "nil" THEN "nil" ELSE "save failed"
            /\ obs' = [obs EXCEPT !.saves = @ + 1,
                                  !.saveFailed = (sv.err # "nil"),
                                  !.resumed = IF obs.orphans # {} /\ sv.err = "nil"
                                              THEN @ + 1 ELSE @]
       ELSE /\ fault = "none"
            /\ files' = files
            /\ runErr' = "nil"
            /\ obs' = [obs EXCEPT !.resumed = IF obs.orphans # {} /\ ~dryRunReorg
                                              THEN @ + 1 ELSE @]
    /\ pc' = "done"
    /\ UNCHANGED <<fs, dryRunReorg, next, originalRepositories,
                   updatedRepositories, stateModified, actionsTaken,
                   actionsProposed, store, storeLog, clock, saver, mu, thread, conv>>

\* The process is killed in the loop or before the final save: its memory
\* is gone, the disk and the state file stay as they are.
Crash ==
    /\ pc = "loop"
    /\ obs.crashes < MaxCrashes
    /\ pc' = "crashed"
    /\ repos' = << >>
    /\ obs' = [obs EXCEPT !.crashes = @ + 1,
                          !.orphans = @ \cup {[k |-> m.k, to |-> m.to] :
                                              m \in {x \in obs.renames : x.ok}}]
    /\ UNCHANGED <<fs, files, dryRunReorg, next, originalRepositories,
                   updatedRepositories, stateModified, actionsTaken,
                   actionsProposed, runErr, store, storeLog, clock, saver, mu, thread, conv>>

(***************************************************************************)
(* The store driven directly: AddRepository, UpdateRepository and          *)
(* RemoveRepositoryByPath on a registry that starts empty.                 *)
(***************************************************************************)
\* An entry as the callers hand it to the store: no timestamp set.
Incoming(name, path, orig, cur, cloned, notes) ==
    Entry(name, path, orig, cur, <<"h">>, <<"h">>, 0, 0, cloned, FALSE, notes)

\* The entries the store is called with: two paths, one of them with two
\* different contents, an empty path, an empty original URL, and an entry
\* that carries its own ClonedAt.
StoreInputs ==
    { Incoming(<<"b">>, PathB, UrlB, UrlB, 0, "i1"),
      Incoming(<<"b">>, PathB, UrlBScp, UrlBScp, 0, "i2"),
      Incoming(<<"c">>, PathC, UrlC, UrlC, 0, "i3"),
      Incoming(<<"b">>, PathW, UrlB, UrlB, 1, "i4"),
      Incoming(<<"b">>, EmptyStr, UrlB, UrlB, 0, "i5"),
      Incoming(<<"b">>, PathB, EmptyStr, UrlB, 0, "i6") }

StorePaths == {PathB, PathC, PathW}

\* The process holds a RepoState: its LoadState, if it called it, returned
\* one, and it has not exited.
StoreUsable ==
    /\ storeLog.op # "exit"
    /\ storeLog.op = "load" => (storeLog.err = "nil" /\ ~storeLog.nilStore)

\* time.Now: later than every reading before.
Tick == clock + 1

\* The entries another caller of the process upserts while a run is in
\* its loop.
CallerInputs == {Incoming(<<"c">>, PathC, UrlC, UrlC, 0, "i3")}

\* Another goroutine of the process calls AddRepository on repoState while
\* RunE is between its copy of the collection and its assignment to it.
CallerAdd(entry) ==
    /\ pc = "loop"
    /\ obs.upserts = {}
    /\ LET r == AddRepository(repos, entry, Tick) IN
       /\ r.err = "nil"
       /\ repos' = r.repos
    /\ clock' = Tick
    /\ obs' = [obs EXCEPT !.upserts = @ \cup {entry.Notes}]
    /\ UNCHANGED <<fs, files, pc, dryRunReorg, next, originalRepositories,
                   updatedRepositories, stateModified, actionsTaken,
                   actionsProposed, runErr, store, storeLog, saver, mu, thread,
                   conv>>

StoreAdd(entry) ==
    /\ clock < MaxOps
    /\ StoreUsable
    /\ LET r == AddRepository(store, entry, Tick) IN
       /\ store' = r.repos
       /\ storeLog' = [op |-> "add", err |-> r.err, path |-> entry.Path,
                       before |-> store, entry |-> entry]
    /\ clock' = Tick
    /\ UNCHANGED <<fs, files, passVars, saver, mu, thread, conv>>

StoreUpdate(entry) ==
    /\ clock < MaxOps
    /\ StoreUsable
    /\ LET r == UpdateRepository(store, entry, Tick) IN
       /\ store' = r.repos
       /\ storeLog' = [op |-> "update", err |-> r.err, path |-> entry.Path,
                       before |-> store, entry |-> entry]
    /\ clock' = Tick
    /\ UNCHANGED <<fs, files, passVars, saver, mu, thread, conv>>

StoreRemove(path) ==
    /\ clock < MaxOps
    /\ StoreUsable
    /\ LET r == RemoveRepositoryByPath(store, path) IN
       /\ store' = r.repos
       /\ storeLog' = [op |-> "remove", err |-> IF r.removed THEN "nil" ELSE "absent",
                       path |-> path, before |-> store, entry |-> << >>]
    /\ clock' = Tick
    /\ UNCHANGED <<fs, files, passVars, saver, mu, thread, conv>>

\* A command starts: PersistentPreRunE calls LoadState, and the process
\* goes on with the store it got, if it got one.
LoadCall(fault) ==
    /\ LET ld == LoadState(files, fault) IN
       /\ files' = ld.files
       /\ store' = ld.repos
       /\ storeLog' = [op |-> "load", err |-> ld.err, path |-> EmptyStr,
                       before |-> << >>, entry |-> << >>, nilStore |-> ld.nilStore,
                       fault |-> fault, files0 |-> files,
                       prev |-> [op |-> storeLog.op, err |-> storeLog.err,
                                 store |-> store]]
    /\ UNCHANGED <<fs, clock, passVars, saver, mu, thread, conv>>

\* The command calls Save on its store.
SaveCall(fault) ==
    /\ StoreUsable
    /\ storeLog.op # "save"
    /\ LET sv == SaveLocked(files, store, fault) IN
       /\ files' = sv.files
       /\ storeLog' = [op |-> "save", err |-> sv.err, path |-> EmptyStr,
                       before |-> store, entry |-> << >>]
    /\ UNCHANGED <<fs, clock, store, passVars, saver, mu, thread, conv>>

(***************************************************************************)
(* The clone and add commands, one process per command: PersistentPreRunE  *)
(* loads the state file, then RunE runs to its return.                     *)
(***************************************************************************)
\* The calls of a command that can fail for a reason outside the registry:
\* os.Stat of the target, os.MkdirAll of its parent, git clone (which
\* leaves nothing, or a directory behind), git remote get-url, and the
\* three of saveLocked.
CmdFaults == {"none", "stat", "mkdirParent", "clone", "cloneLeft", "remote",
              "mkdirState", "write", "rename"}

\* The failing call of saveLocked, if the command's failing call is one.
SaveFaultOf(fault) ==
    IF fault = "mkdirState" THEN "mkdir"
    ELSE IF fault \in {"write", "rename"} THEN fault
    ELSE "none"

\* A clone that records its entry as adopted.
CloneEntryAdopted(parsedURL, targetPath, repoURL) ==
    Entry(parsedURL.RepoName, targetPath, repoURL, repoURL, parsedURL.Domain,
          GetNormalizedFSPath(parsedURL), 0, 0, 0, TRUE, "")

\* The entry clone hands to AddRepository.
CloneEntry(parsedURL, targetPath, repoURL) ==
    Entry(parsedURL.RepoName, targetPath, repoURL, repoURL, parsedURL.Domain,
          GetNormalizedFSPath(parsedURL), 0, 0, 0, FALSE, "")

\* The entry add hands to AddRepository.
AddEntry(parsedURL, absRepoPath, originURL) ==
    Entry(parsedURL.RepoName, absRepoPath, originURL, originURL, parsedURL.Domain,
          GetNormalizedFSPath(parsedURL), 0, 0, 0, TRUE, "")

\* A check that takes every tracked target for a match.
AnyURLMatches(existingEntry, repoURL) == TRUE

\* The tracked entry at the target has the URL given to clone.
URLMatches(existingEntry, repoURL) ==
    existingEntry.OriginalURL = repoURL \/ existingEntry.CurrentURL = repoURL

\* What a command hands back: its error, the collection, the disk and the
\* files when it returns, the path it worked on, whether git clone ran and
\* succeeded, and the calls of AddRepository and Save it made.
CmdResult(err, rs, f, fl, path, ran, cloned, adds, saves) ==
    [err |-> err, repos |-> rs, fs |-> f, files |-> fl, path |-> path,
     ran |-> ran, cloned |-> cloned, adds |-> adds, saves |-> saves]

\* A clone that updates and saves the registry before it runs git clone.
CloneAfterTracking(rs, f, fl, repoURL, parsedURL, targetPath, fault, now) ==
    LET ad == AddRepository(rs, CloneEntry(parsedURL, targetPath, repoURL), now)
        sv == SaveLocked(fl, ad.repos, SaveFaultOf(fault))
        f1 == MkdirAll(f, Dir(targetPath))
    IN  IF fault \in {"clone", "cloneLeft"}
        THEN CmdResult("clone", ad.repos, f1, sv.files, targetPath, TRUE, FALSE, 1, 1)
        ELSE CmdResult(IF sv.err = "nil" THEN "nil" ELSE "save", ad.repos,
                       [MkdirAll(f1, targetPath) EXCEPT ![targetPath] = RepoDir(repoURL)],
                       sv.files, targetPath, TRUE, TRUE, 1, 1)

\* cloneCmd.RunE from the creation of the parent directory on: MkdirAll,
\* git clone, AddRepository (with the removal of the clone when it fails)
\* and Save.
CloneAndTrack(rs, f, fl, repoURL, parsedURL, targetPath, fault, now) ==
    IF fault = "mkdirParent"
    THEN CmdResult("mkdir", rs, f, fl, targetPath, FALSE, FALSE, 0, 0)
    ELSE
    LET f1 == MkdirAll(f, Dir(targetPath)) IN
    IF fault = "clone"
    THEN CmdResult("clone", rs, f1, fl, targetPath, TRUE, FALSE, 0, 0)
    ELSE IF fault = "cloneLeft"
    THEN CmdResult("clone", rs, MkdirAll(f1, targetPath), fl, targetPath,
                   TRUE, FALSE, 0, 0)
    ELSE LET f2 == [MkdirAll(f1, targetPath) EXCEPT ![targetPath] = RepoDir(repoURL)]
             ad == AddRepository(rs, CloneEntry(parsedURL, targetPath, repoURL), now)
         IN  IF ad.err # "nil"
             THEN CmdResult("add", ad.repos, f1, fl, targetPath, TRUE, TRUE, 1, 0)
             ELSE LET sv == SaveLocked(fl, ad.repos, SaveFaultOf(fault)) IN
                  CmdResult(IF sv.err = "nil" THEN "nil" ELSE "save", ad.repos, f2,
                            sv.files, targetPath, TRUE, TRUE, 1, 1)

\* cloneCmd.RunE on the collection rs that LoadState returned.
CloneRun(rs, f, fl, repoURL, fault, now) ==
    LET parsedURL == ParseGitURL(repoURL) IN
    IF ~parsedURL.ok
    THEN CmdResult("invalid", rs, f, fl, EmptyStr, FALSE, FALSE, 0, 0)
    ELSE LET targetPath == GetLocalPath(parsedURL, FussyGitHome)
             existing   == FindRepositoryByPath(rs, targetPath)
         IN  IF existing.found
             THEN IF URLMatches(existing.entry, repoURL)
                  THEN CmdResult("nil", rs, f, fl, targetPath, FALSE, FALSE, 0, 0)
                  ELSE CmdResult("conflict", rs, f, fl, targetPath, FALSE, FALSE, 0, 0)
             ELSE IF fault = "stat" \/ Exists(f, targetPath)
             THEN CmdResult("exists", rs, f, fl, targetPath, FALSE, FALSE, 0, 0)
             ELSE CloneAndTrack(rs, f, fl, repoURL, parsedURL, targetPath, fault, now)

\* addCmd.RunE on the collection rs that LoadState returned (the path given
\* is absolute and clean).
AddRun(rs, f, fl, absRepoPath, fault, now) ==
    IF ~IsGitRepository(f, absRepoPath)
    THEN CmdResult("notRepo", rs, f, fl, absRepoPath, FALSE, FALSE, 0, 0)
    ELSE IF FindRepositoryByPath(rs, absRepoPath).found
    THEN CmdResult("nil", rs, f, fl, absRepoPath, FALSE, FALSE, 0, 0)
    ELSE LET origin == IF fault = "remote" THEN [ok |-> FALSE, url |-> EmptyStr]
                       ELSE GetRemoteOriginURL(f, absRepoPath)
         IN
         IF ~origin.ok
         THEN CmdResult("remote", rs, f, fl, absRepoPath, FALSE, FALSE, 0, 0)
         ELSE LET parsedURL == ParseGitURL(origin.url) IN
              IF ~parsedURL.ok
              THEN CmdResult("invalid", rs, f, fl, absRepoPath, FALSE, FALSE, 0, 0)
              ELSE LET ad == AddRepository(rs, AddEntry(parsedURL, absRepoPath, origin.url),
                                           now)
                   IN  IF ad.err # "nil"
                       THEN CmdResult("add", ad.repos, f, fl, absRepoPath, FALSE, FALSE,
                                      1, 0)
                       ELSE LET sv == SaveLocked(fl, ad.repos, SaveFaultOf(fault)) IN
                            CmdResult(IF sv.err = "nil" THEN "nil" ELSE "save",
                                      ad.repos, f, sv.files, absRepoPath, FALSE, FALSE,
                                      1, 1)

\* A command has run to its return: the observer keeps what it was given,
\* what LoadState returned to it and what it handed back.  No reorganize
\* process is left, so RunE's locals are as before any run.
CmdReturns(op, arg, ld, r) ==
    /\ repos' = r.repos
    /\ fs' = r.fs
    /\ files' = r.files
    /\ clock' = Tick
    /\ pc' = "idle"
    /\ dryRunReorg' = FALSE
    /\ next' = 1
    /\ originalRepositories' = << >>
    /\ updatedRepositories' = << >>
    /\ stateModified' = FALSE
    /\ actionsTaken' = 0
    /\ actionsProposed' = 0
    /\ runErr' = "none"
    /\ obs' = [obs EXCEPT !.cli = [n |-> obs.cli.n + 1, op |-> op, arg |-> arg,
                                   err |-> r.err, path |-> r.path, ran |-> r.ran,
                                   cloned |-> r.cloned, adds |-> r.adds,
                                   saves |-> r.saves, repos0 |-> ld.repos,
                                   files0 |-> ld.files, fs0 |-> fs]]
    /\ UNCHANGED <<store, storeLog, saver, mu, thread, conv>>

\* fussy-git clone <repo_url>
CloneCmd(repoURL, fault) ==
    /\ pc \in {"idle", "done", "crashed"}
    /\ obs.cli.n < MaxCmds
    /\ fault \notin {"remote"}
    /\ \E ld \in {LoadState(files, "none")} :
          /\ ld.ok /\ ~ld.nilStore
          /\ \E r \in {CloneRun(ld.repos, fs, ld.files, repoURL, fault, Tick)} :
                CmdReturns("clone", repoURL, ld, r)

\* fussy-git add <path>
AddCmd(absRepoPath, fault) ==
    /\ pc \in {"idle", "done", "crashed"}
    /\ obs.cli.n < MaxCmds
    /\ fault \in {"none", "remote", "mkdirState", "write", "rename"}
    /\ \E ld \in {LoadState(files, "none")} :
          /\ ld.ok /\ ~ld.nilStore
          /\ \E r \in {AddRun(ld.repos, fs, ld.files, absRepoPath, fault, Tick)} :
                CmdReturns("add", absRepoPath, ld, r)

(***************************************************************************)
(* RepoState.saveLocked step by step, in processes that share the state    *)
(* file: MkdirAll and MarshalIndent, os.WriteFile (open with truncation,   *)
(* write, close), os.Rename, and os.Remove after a failed rename.  An      *)
(* open file descriptor follows its file when the file is renamed.         *)
(***************************************************************************)
Savers == 1..MaxSavers

\* The registries the processes hold in memory when they save.
SaveDocs == {Marshal(<< >>), Marshal(<<Tracked(<<"b">>, PathB, UrlB, UrlB, FALSE, "n2")>>)}

\* A save that writes to the state file itself.
InPlaceName == "state"

\* tempFilePath := filePathToUse + ".tmp"
TempName == "tmp"

\* The file a descriptor writes to, after the renames since it was opened.
FdRenamed(fd, from, to) ==
    IF from = to THEN fd
    ELSE IF fd = from THEN to
    ELSE IF fd = to THEN "unlinked"
    ELSE fd

\* A save starts: the directory is made and the collection marshalled.
SaveBegin(p, doc, ok) ==
    /\ saver[p].pc = "idle"
    /\ saver' = [saver EXCEPT ![p] =
                    IF ok THEN [pc |-> "open", doc |-> doc, fd |-> "none", err |-> "none"]
                    ELSE [pc |-> "done", doc |-> doc, fd |-> "none", err |-> "mkdir"]]
    /\ obs' = [obs EXCEPT !.saves = @ + 1,
                          !.overlap = @ \/ \E q \in Savers :
                              saver[q].pc \in {"open", "write1", "write2", "rename", "remove"}]
    /\ UNCHANGED <<fs, files, clock, repos, pc, dryRunReorg, next,
                   originalRepositories, updatedRepositories, stateModified,
                   actionsTaken, actionsProposed, runErr, store, storeLog, mu, thread, conv>>

\* os.WriteFile opens the temp file: created, or truncated if it is there.
OpenTemp(p) ==
    /\ saver[p].pc = "open"
    /\ files' = [files EXCEPT ![TempName] = EmptyFile]
    /\ saver' = [saver EXCEPT ![p].pc = "write1", ![p].fd = TempName]
    /\ UNCHANGED <<fs, clock, passVars, store, storeLog, mu, thread, conv>>

\* The file after chunk n of doc is written through descriptor fd.
WriteThrough(fl, fd, n, doc) ==
    IF fd \notin {"state", "tmp"} THEN fl
    ELSE IF n = 1 THEN [fl EXCEPT ![fd].c1 = <<doc>>]
    ELSE [fl EXCEPT ![fd].c2 = <<doc>>]

\* os.WriteFile writes the first part of the data.
WriteFirst(p) ==
    /\ saver[p].pc = "write1"
    /\ files' = WriteThrough(files, saver[p].fd, 1, saver[p].doc)
    /\ saver' = [saver EXCEPT ![p].pc = "write2"]
    /\ UNCHANGED <<fs, clock, passVars, store, storeLog, mu, thread, conv>>

\* os.WriteFile writes the rest and closes the file.
WriteRest(p) ==
    /\ saver[p].pc = "write2"
    /\ files' = WriteThrough(files, saver[p].fd, 2, saver[p].doc)
    /\ saver' = [saver EXCEPT ![p].pc = "rename", ![p].fd = "none"]
    /\ UNCHANGED <<fs, clock, passVars, store, storeLog, mu, thread, conv>>

\* os.Rename(tempFilePath, filePathToUse): it fails when the temp file is
\* gone (or for a reason of the disk's), and then the temp file is removed.
RenameTemp(p, ok) ==
    /\ saver[p].pc = "rename"
    /\ IF ok /\ files[TempName].exists
       THEN /\ files' = IF TempName = "state" THEN files
                        ELSE [state |-> files[TempName], tmp |-> Absent]
            /\ saver' = [q \in Savers |->
                           IF q = p THEN [saver[q] EXCEPT !.pc = "done", !.err = "nil"]
                           ELSE [saver[q] EXCEPT !.fd = FdRenamed(@, TempName, "state")]]
       ELSE /\ files' = files
            /\ saver' = [saver EXCEPT ![p].pc = "remove"]
    /\ UNCHANGED <<fs, clock, passVars, store, storeLog, mu, thread, conv>>

\* os.Remove(tempFilePath) after the failed rename; the error is returned.
RemoveTemp(p) ==
    /\ saver[p].pc = "remove"
    /\ files' = [files EXCEPT ![TempName] = Absent]
    /\ saver' = [q \in Savers |->
                   IF q = p THEN [saver[q] EXCEPT !.pc = "done", !.err = "rename"]
                   ELSE [saver[q] EXCEPT !.fd = IF @ = TempName THEN "unlinked" ELSE @]]
    /\ UNCHANGED <<fs, clock, passVars, store, storeLog, mu, thread, conv>>

\* The process is killed at any step of its save.
CrashSave(p) ==
    /\ saver[p].pc \in {"open", "write1", "write2", "rename", "remove"}
    /\ saver' = [saver EXCEPT ![p].pc = "dead", ![p].fd = "none"]
    /\ UNCHANGED <<fs, files, clock, passVars, store, storeLog, mu, thread, conv>>

(***************************************************************************)
(* The goroutines of one process calling the store, step by step: Lock or  *)
(* RLock, the scan of rs.Repositories, the write, Unlock.                  *)
(***************************************************************************)
Threads == 1..MaxThreads

\* sync.RWMutex: the goroutine holding Lock (0 for none), those holding RLock.
Unlocked == [writer |-> 0, readers |-> {}]

IdleThread ==
    [pc |-> "idle", op |-> "none", entry |-> << >>, path |-> EmptyStr,
     snap |-> << >>, hit |-> 0, now |-> 0, err |-> "none", after |-> << >>]

IdleThreads == [t \in Threads |-> IdleThread]

\* The operations that take rs.mu.Lock; the others take rs.mu.RLock.
Mutators == {"add", "update", "remove", "save"}

\* A call of the store as a goroutine makes it.
Call(op, entry, path) == [op |-> op, entry |-> entry, path |-> path]

\* The calls the goroutines make: upserts of one path with two contents and
\* of another path, an update, a removal, the two lookups, a Save.
ThreadCalls ==
    { Call("add", Incoming(<<"b">>, PathB, UrlB, UrlB, 0, "i1"), PathB),
      Call("add", Incoming(<<"b">>, PathB, UrlBScp, UrlBScp, 0, "i2"), PathB),
      Call("add", Incoming(<<"c">>, PathC, UrlC, UrlC, 0, "i3"), PathC),
      Call("update", Incoming(<<"b">>, PathB, EmptyStr, UrlB, 0, "i6"), PathB),
      Call("remove", << >>, PathB),
      Call("findPath", << >>, PathB),
      Call("findURL", << >>, UrlB),
      Call("save", << >>, EmptyStr) }

\* The registries the process holds when the goroutines start.
ThreadStores ==
    { << >>,
      <<Tracked(<<"b">>, PathB, UrlB, UrlB, FALSE, "n2")>>,
      <<Tracked(<<"c">>, PathC, UrlC, UrlC, FALSE, "n3"),
        Tracked(<<"b">>, PathB, UrlB, UrlB, FALSE, "n2")>> }

\* A mutex that never makes a caller wait.
NeverBlocks(m, exclusive) == TRUE

\* sync.RWMutex: Lock is granted when nobody holds the mutex, RLock when no
\* goroutine holds Lock.
LockFree(m, exclusive) ==
    IF exclusive THEN m.writer = 0 /\ m.readers = {} ELSE m.writer = 0

\* rs.mu.Lock() or rs.mu.RLock() at the head of the operation.
ThLock(t, call) ==
    /\ thread[t].pc = "idle"
    /\ LockFree(mu, call.op \in Mutators)
    /\ mu' = IF call.op \in Mutators THEN [mu EXCEPT !.writer = t]
             ELSE [mu EXCEPT !.readers = @ \cup {t}]
    /\ thread' = [thread EXCEPT ![t] =
                     [IdleThread EXCEPT !.pc = "scan", !.op = call.op,
                                        !.entry = call.entry, !.path = call.path,
                                        !.snap = store]]
    /\ UNCHANGED <<fs, files, clock, passVars, store, storeLog, saver, conv>>

\* The position the loop over rs.Repositories stops at: 0 when it runs to
\* the end.
ScanFor(rs, op, path) ==
    IF op = "findURL"
    THEN LET hits == {i \in 1..Len(rs) : rs[i].OriginalURL = path} IN
         IF hits = {} THEN 0 ELSE CHOOSE i \in hits : \A j \in hits : i <= j
    ELSE IF IndexesOfPath(rs, path) = {} THEN 0 ELSE FirstIndexOfPath(rs, path)

\* The error an operation returns before it writes, "none" when it goes on
\* to write.
EarlyReturn(op, entry, hit) ==
    IF op \in {"add", "update"} /\ entry.Path = EmptyStr THEN "empty path"
    ELSE IF op = "add" /\ entry.OriginalURL = EmptyStr THEN "empty original URL"
    ELSE IF op = "update" /\ hit = 0 THEN "not found"
    ELSE IF op = "remove" /\ hit = 0 THEN "absent"
    ELSE IF op \in {"findPath", "findURL"} THEN (IF hit = 0 THEN "absent" ELSE "found")
    ELSE "none"

\* The validation, time.Now and the loop over rs.Repositories (for Save:
\* json.MarshalIndent of the collection).
ThScan(t) ==
    /\ thread[t].pc = "scan"
    /\ LET th  == thread[t]
           hit == ScanFor(store, th.op, th.path)
           err == EarlyReturn(th.op, th.entry, hit)
       IN  /\ thread' = [thread EXCEPT ![t] =
                  [th EXCEPT !.hit = hit, !.err = err,
                             !.now = IF th.op \in {"add", "update"} THEN Tick ELSE 0,
                             !.after = IF th.op \in {"findPath", "findURL"} /\ hit > 0
                                       THEN <<store[hit]>> ELSE store,
                             !.pc = IF err = "none" THEN "write" ELSE "unlock"]]
           /\ clock' = IF th.op \in {"add", "update"} THEN Tick ELSE clock
    /\ UNCHANGED <<fs, files, passVars, store, storeLog, saver, mu, conv>>

\* The collection after the operation wrote at the position its loop found.
WriteAt(rs, th) ==
    IF th.op = "add"
    THEN IF th.hit = 0 THEN Append(rs, StampNew(th.entry, th.now))
         ELSE [rs EXCEPT ![th.hit] = CarryForward(StampNew(th.entry, th.now), rs[th.hit])]
    ELSE IF th.op = "update"
    THEN [rs EXCEPT ![th.hit] =
              [CarryForward(th.entry, rs[th.hit]) EXCEPT !.LastModified = th.now]]
    ELSE IF th.op = "remove"
    THEN SubSeq(rs, 1, th.hit - 1) \o SubSeq(rs, th.hit + 1, Len(rs))
    ELSE rs

\* The write: rs.Repositories[i] = entry, the append, the removal, or the
\* write of the marshalled data to the state file.  An index past the end
\* of the slice is a run-time panic.
ThWrite(t) ==
    /\ thread[t].pc = "write"
    /\ LET th == thread[t] IN
       IF th.op # "save" /\ th.hit > Len(store)
       THEN /\ thread' = [thread EXCEPT ![t].pc = "panic"]
            /\ UNCHANGED <<store, files>>
       ELSE /\ store' = WriteAt(store, th)
            /\ files' = IF th.op = "save" THEN SaveLocked(files, th.after, "none").files
                        ELSE files
            /\ thread' = [thread EXCEPT ![t].pc = "unlock", ![t].err = "nil",
                                        ![t].after = IF th.op = "save" THEN th.after
                                                     ELSE WriteAt(store, th)]
    /\ UNCHANGED <<fs, clock, passVars, storeLog, saver, mu, conv>>

\* The deferred rs.mu.Unlock() or rs.mu.RUnlock().
ThUnlock(t) ==
    /\ thread[t].pc = "unlock"
    /\ mu' = IF thread[t].op \in Mutators
             THEN [mu EXCEPT !.writer = IF @ = t THEN 0 ELSE @]
             ELSE [mu EXCEPT !.readers = @ \ {t}]
    /\ thread' = [thread EXCEPT ![t].pc = "done"]
    /\ UNCHANGED <<fs, files, clock, passVars, store, storeLog, saver, conv>>

(***************************************************************************)
(* The gitutil functions applied to URLs: ParseGitURL on a URL, ToSSH or   *)
(* ToHTTPS on the descriptor it returned, ParseGitURL again on the URL a   *)
(* conversion returned.  The URLs are written from a form, the host "h"    *)
(* and a path.                                                             *)
(***************************************************************************)
\* The result of a conversion that has not been made: ("", error).
NoOut == [ok |-> FALSE, url |-> EmptyStr]

\* No URL handed to the gitutil functions yet.
NoConv ==
    [in |-> EmptyStr, form |-> "none", path |-> EmptyStr,
     twin |-> EmptyStr, twinForm |-> "none", twinPath |-> EmptyStr,
     step |-> "none", trail |-> << >>,
     first |-> NilParsed, pu |-> NilParsed, twinPu |-> NilParsed, out |-> NoOut]

\* The forms that name a repository on a host by scheme alone.
TransportForms == {"https", "http", "ssh", "git", "scp"}

\* The other inputs: an https URL with a user, a scheme ParseGitURL has no
\* case for, a relative path, a rooted path with a colon, a one-letter
\* scheme.
OtherForms == {"user", "ftp", "local", "colon", "opaque"}

\* The repoURL string of a form for the path.
Render(form, path) ==
    CASE form = "https"  -> <<"h", "t", "t", "p", "s", ":", "/", "/", "h", "/">> \o path
      [] form = "http"   -> <<"h", "t", "t", "p", ":", "/", "/", "h", "/">> \o path
      [] form = "ssh"    -> <<"s", "s", "h", ":", "/", "/", "g", "i", "t", "@", "h", "/">> \o path
      [] form = "git"    -> <<"g", "i", "t", ":", "/", "/", "h", "/">> \o path
      [] form = "scp"    -> <<"g", "i", "t", "@", "h", ":">> \o path
      [] form = "user"   -> <<"h", "t", "t", "p", "s", ":", "/", "/", "b", "o", "b", "@", "h", "/">> \o path
      [] form = "ftp"    -> <<"f", "t", "p", ":", "/", "/", "h", "/">> \o path
      [] form = "local"  -> path
      [] form = "colon"  -> <<"/", "x", ":">> \o path
      [] form = "opaque" -> <<"h", ":">> \o path

\* The paths the URLs are written with, before an optional ".git".
ConvPaths ==
    {<<"a", "/", "b">>, <<"b">>, EmptyStr, <<"a", "/">>, <<"b">> \o DotGit,
     <<"a", "/">> \o DotGit}

ConvSuffixes == {EmptyStr, DotGit}

\* A URL to parse, with a second URL of the same host and path: another
\* transport form of it, or the URL itself.
ConvStart(form, path, twinForm, twinPath) ==
    [NoConv EXCEPT !.in = Render(form, path), !.form = form, !.path = path,
                   !.twin = Render(twinForm, twinPath), !.twinForm = twinForm,
                   !.twinPath = twinPath, !.step = "input"]

ConvStarts ==
    {ConvStart(f, p \o s, g, p \o t) :
        f \in TransportForms, g \in TransportForms, p \in ConvPaths,
        s \in ConvSuffixes, t \in ConvSuffixes}
    \cup {ConvStart(f, p \o s, f, p \o s) :
            f \in OtherForms, p \in ConvPaths, s \in ConvSuffixes}

\* ParseGitURL(repoURL) on the URL handed in.
ConvParse ==
    /\ conv.step = "input"
    /\ \E r \in {ParseGitURL(conv.in)} :
          conv' = [conv EXCEPT !.step = "parsed", !.trail = <<"parse">>,
                               !.first = r, !.pu = r]
    /\ UNCHANGED <<fs, files, clock, passVars, store, storeLog, saver, mu,
                   thread>>

\* ParseGitURL on the second URL, by a caller comparing the two.
ConvParseTwin ==
    /\ conv.step = "parsed"
    /\ conv.trail = <<"parse">>
    /\ \E r \in {ParseGitURL(conv.twin)} :
          conv' = [conv EXCEPT !.step = "twin", !.twinPu = r]
    /\ UNCHANGED <<fs, files, clock, passVars, store, storeLog, saver, mu,
                   thread>>

\* pu.ToSSH() on the descriptor of the last successful parse.
ConvToSSH ==
    /\ conv.step = "parsed"
    /\ conv.pu.ok
    /\ Len(conv.trail) < MaxConv
    /\ \E r \in {ToSSH(conv.pu)} :
          conv' = [conv EXCEPT !.step = "converted", !.out = r,
                               !.trail = Append(@, "ssh")]
    /\ UNCHANGED <<fs, files, clock, passVars, store, storeLog, saver, mu,
                   thread>>

\* pu.ToHTTPS() on the descriptor of the last successful parse.
ConvToHTTPS ==
    /\ conv.step = "parsed"
    /\ conv.pu.ok
    /\ Len(conv.trail) < MaxConv
    /\ \E r \in {ToHTTPS(conv.pu)} :
          conv' = [conv EXCEPT !.step = "converted", !.out = r,
                               !.trail = Append(@, "https")]
    /\ UNCHANGED <<fs, files, clock, passVars, store, storeLog, saver, mu,
                   thread>>

\* ParseGitURL on the URL the last conversion returned.
ConvReparse ==
    /\ conv.step = "converted"
    /\ conv.out.ok
    /\ Len(conv.trail) < MaxConv
    /\ \E r \in {ParseGitURL(conv.out.url)} :
          conv' = [conv EXCEPT !.step = "parsed", !.pu = r,
                               !.trail = Append(@, "parse")]
    /\ UNCHANGED <<fs, files, clock, passVars, store, storeLog, saver, mu,
                   thread>>

(***************************************************************************)
(* The specifications.                                                     *)
(***************************************************************************)
IdleSavers == [p \in Savers |-> [pc |-> "idle", doc |-> Marshal(<< >>), fd |-> "none",
                                 err |-> "none"]]

NoStoreLog == [op |-> "none", err |-> "nil", path |-> EmptyStr, before |-> << >>,
               entry |-> << >>]

\* No goroutine calls the store and no URL is being converted.
NoCallers ==
    /\ mu = Unlocked
    /\ thread = IdleThreads
    /\ conv = NoConv

\* No process runs; the values of RunE's locals do not matter.
NoProcess ==
    /\ repos = << >>
    /\ pc = "idle"
    /\ dryRunReorg = FALSE
    /\ next = 1
    /\ originalRepositories = << >>
    /\ updatedRepositories = << >>
    /\ stateModified = FALSE
    /\ actionsTaken = 0
    /\ actionsProposed = 0
    /\ runErr = "none"

\* Reorganize runs over a persisted registry and a disk.
Init ==
    /\ fs \in InitDisks
    /\ \E rs \in InitRegistries : files = [state |-> FileOf(Marshal(rs)), tmp |-> Absent]
    /\ clock = 1
    /\ NoProcess
    /\ obs = NoObs
    /\ store = << >>
    /\ storeLog = NoStoreLog
    /\ saver = IdleSavers
    /\ NoCallers

Next ==
    \/ \E dry \in BOOLEAN : Invoke(dry)
    \/ \E fault \in Faults : ProcessEntry(fault)
    \/ \E fault \in SaveFaults : FinishPass(fault)
    \/ Crash

Spec == Init /\ [][Next]_vars

\* Reorganize runs over one entry at PathB whose stored URL and whose
\* repository's origin URL are drawn from the URL forms.  The entry is
\* named "b", which is not the repository name of every stored URL.
InitUrl ==
    /\ \E stored \in UrlForms, live \in UrlForms :
          /\ fs = DiskOf([q \in {PathB} |-> RepoDir(live)], {PathB})
          /\ files = [state |-> FileOf(Marshal(
                          <<Tracked(<<"b">>, PathB, stored, stored, FALSE, "u1")>>)),
                      tmp |-> Absent]
    /\ clock = 1
    /\ NoProcess
    /\ obs = NoObs
    /\ store = << >>
    /\ storeLog = NoStoreLog
    /\ saver = IdleSavers
    /\ NoCallers

SpecUrl == InitUrl /\ [][Next]_vars

\* "a/b", a local path: no scheme and no colon
LocalB == <<"a", "/", "b">>

\* "a/c", another local path
LocalC == <<"a", "/", "c">>

\* URLs that ToHTTPS converts, local paths, which it does not, and a URL
\* that ParseGitURL rejects.
DriftForms == {UrlB, UrlBScp, UrlC, LocalB, LocalC, UrlBad}

\* Reorganize runs over one entry at PathB whose stored URL and whose
\* repository's origin URL are drawn from DriftForms.
InitDrift ==
    /\ \E stored \in DriftForms, live \in DriftForms :
          /\ fs = DiskOf([q \in {PathB} |-> RepoDir(live)], {PathB})
          /\ files = [state |-> FileOf(Marshal(
                          <<Tracked(<<"b">>, PathB, stored, stored, FALSE, "d1")>>)),
                      tmp |-> Absent]
    /\ clock = 1
    /\ NoProcess
    /\ obs = NoObs
    /\ store = << >>
    /\ storeLog = NoStoreLog
    /\ saver = IdleSavers
    /\ NoCallers

SpecDrift == InitDrift /\ [][Next]_vars

\* The URLs given to clone and the paths given to add.
CloneURLs == {UrlB, UrlBScp, UrlC, UrlBad}

AddPaths == {PathW, PathB}

\* The registries the commands find persisted.
CliRegistries ==
    { << >>,
      <<Tracked(<<"b">>, PathB, UrlB, UrlB, FALSE, "n2")>>,
      <<Tracked(<<"b">>, PathB, UrlC, UrlBScp, FALSE, "n5")>>,
      <<Tracked(<<"b">>, PathW, UrlB, UrlB, TRUE, "n1")>> }

\* The disks the commands find: nothing under the root, a repository
\* outside the root, a plain directory at the target of the URLs of "b",
\* repositories of "c" at that target and of an unparsable origin outside.
CliDisks ==
    { EmptyDisk,
      DiskOf([q \in {PathW} |-> RepoDir(UrlB)], {PathW}),
      DiskOf([q \in {PathB} |-> PlainDir], {PathB}),
      DiskOf([q \in {PathW, PathB} |-> IF q = PathW THEN RepoDir(UrlBad)
                                       ELSE RepoDir(UrlC)], {PathW, PathB}) }

\* Clone, add and reorganize run one after the other over a disk and a
\* state file; the state file may be missing.
InitCli ==
    /\ fs \in CliDisks
    /\ \E st \in {Absent} \cup {FileOf(Marshal(rs)) : rs \in CliRegistries} :
          files = [state |-> st, tmp |-> Absent]
    /\ clock = 1
    /\ NoProcess
    /\ obs = NoObs
    /\ store = << >>
    /\ storeLog = NoStoreLog
    /\ saver = IdleSavers
    /\ NoCallers

\* The commands meet failing calls; the reorganize runs between them do
\* not, and are not killed.
NextCli ==
    \/ \E u \in CloneURLs, fault \in CmdFaults : CloneCmd(u, fault)
    \/ \E q \in AddPaths, fault \in CmdFaults : AddCmd(q, fault)
    \/ \E dry \in BOOLEAN : Invoke(dry)
    \/ ProcessEntry("none")
    \/ FinishPass("none")

SpecCli == InitCli /\ [][NextCli]_vars

\* Reorganize runs in a process whose other goroutines call the store.
NextShared ==
    \/ Next
    \/ \E e \in CallerInputs : CallerAdd(e)

SpecShared == InitUrl /\ [][NextShared]_vars

\* The store's operations on a registry that starts empty.
InitStore ==
    /\ fs = EmptyDisk
    /\ files = [state |-> Absent, tmp |-> Absent]
    /\ clock = 0
    /\ NoProcess
    /\ obs = NoObs
    /\ store = << >>
    /\ storeLog = NoStoreLog
    /\ saver = IdleSavers
    /\ NoCallers

NextStore ==
    \/ \E e \in StoreInputs : StoreAdd(e)
    \/ \E e \in StoreInputs : StoreUpdate(e)
    \/ \E q \in StorePaths : StoreRemove(q)

SpecStore == InitStore /\ [][NextStore]_vars

\* The store's operations on a registry as LoadState hands it over: whatever
\* the state file holds, two entries with one path included.
InitLoaded ==
    /\ fs = EmptyDisk
    /\ files = [state |-> Absent, tmp |-> Absent]
    /\ clock = 1
    /\ NoProcess
    /\ obs = NoObs
    /\ store \in Registries(MaxEntries)
    /\ storeLog = NoStoreLog
    /\ saver = IdleSavers
    /\ NoCallers

SpecLoaded == InitLoaded /\ [][NextStore]_vars

\* What the state file can hold when a command starts: nothing (missing),
\* an empty file, a registry, a registry cut short, the JSON value null, a
\* JSON value of another shape.
InitStateFiles ==
    {Absent, EmptyFile, FileOf(NullDoc), FileOf(WrongShapeDoc)}
        \cup {FileOf(d) : d \in SaveDocs} \cup {HalfFile(d) : d \in SaveDocs}

\* Commands that load the state file, work on the store and save it.
InitLoad ==
    /\ fs = EmptyDisk
    /\ \E st \in InitStateFiles : files = [state |-> st, tmp |-> Absent]
    /\ clock = 1
    /\ NoProcess
    /\ obs = NoObs
    /\ store = << >>
    /\ storeLog = [NoStoreLog EXCEPT !.op = "exit"]
    /\ saver = IdleSavers
    /\ NoCallers

NextLoad ==
    \/ \E fault \in LoadFaults : LoadCall(fault)
    \/ \E fault \in SaveFaults : SaveCall(fault)
    \/ \E e \in StoreInputs : StoreAdd(e)
    \/ \E e \in StoreInputs : StoreUpdate(e)
    \/ \E q \in StorePaths : StoreRemove(q)

SpecLoad == InitLoad /\ [][NextLoad]_vars

\* "/w/" followed by a byte that is not valid UTF-8: a directory name the
\* file system allows.
PathRaw == <<"/", "w", "/", InvalidByte>>

\* The entries a command adds: tracked repositories, one of them in a
\* directory whose name is not valid UTF-8.
RoundInputs ==
    { Incoming(<<"b">>, PathB, UrlB, UrlB, 0, "i1"),
      Incoming(<<"c">>, PathC, UrlC, UrlC, 0, "i3"),
      Incoming(<<"b">>, PathRaw, UrlB, UrlB, 0, "i7") }

RoundPaths == {PathB, PathC, PathRaw}

\* Commands that load the state file, change the store, save it, and load
\* it again.
NextRound ==
    \/ \E fault \in LoadFaults : LoadCall(fault)
    \/ \E fault \in SaveFaults : SaveCall(fault)
    \/ \E e \in RoundInputs : StoreAdd(e)
    \/ \E e \in RoundInputs : StoreUpdate(e)
    \/ \E q \in RoundPaths : StoreRemove(q)

SpecRound == InitLoad /\ [][NextRound]_vars

\* Goroutines of one process calling the store it holds.
InitThreads ==
    /\ fs = EmptyDisk
    /\ files = [state |-> Absent, tmp |-> Absent]
    /\ clock = 1
    /\ NoProcess
    /\ obs = NoObs
    /\ store \in ThreadStores
    /\ storeLog = NoStoreLog
    /\ saver = IdleSavers
    /\ NoCallers

NextThreads ==
    \/ \E t \in Threads, call \in ThreadCalls : ThLock(t, call)
    \/ \E t \in Threads : ThScan(t)
    \/ \E t \in Threads : ThWrite(t)
    \/ \E t \in Threads : ThUnlock(t)

SpecThreads == InitThreads /\ [][NextThreads]_vars

\* The gitutil functions alone: no process, no state file.
InitConv ==
    /\ fs = EmptyDisk
    /\ files = [state |-> Absent, tmp |-> Absent]
    /\ clock = 0
    /\ NoProcess
    /\ obs = NoObs
    /\ store = << >>
    /\ storeLog = NoStoreLog
    /\ saver = IdleSavers
    /\ mu = Unlocked
    /\ thread = IdleThreads
    /\ conv \in ConvStarts

NextConv ==
    \/ ConvParse
    \/ ConvParseTwin
    \/ ConvToSSH
    \/ ConvToHTTPS
    \/ ConvReparse

SpecConv == InitConv /\ [][NextConv]_vars

\* Processes saving to one state file, which holds a snapshot or is missing.
InitSave ==
    /\ fs = EmptyDisk
    /\ files \in {[state |-> st, tmp |-> Absent] :
                    st \in {Absent} \cup {FileOf(d) : d \in SaveDocs}}
    /\ clock = 0
    /\ NoProcess
    /\ obs = [NoObs EXCEPT !.files0 = files]
    /\ store = << >>
    /\ storeLog = NoStoreLog
    /\ saver = IdleSavers
    /\ NoCallers

NextSave ==
    \/ \E p \in Savers, d \in SaveDocs, ok \in BOOLEAN : SaveBegin(p, d, ok)
    \/ \E p \in Savers : OpenTemp(p)
    \/ \E p \in Savers : WriteFirst(p)
    \/ \E p \in Savers : WriteRest(p)
    \/ \E p \in Savers, ok \in BOOLEAN : RenameTemp(p, ok)
    \/ \E p \in Savers : RemoveTemp(p)
    \/ \E p \in Savers : CrashSave(p)

SpecSave == InitSave /\ [][NextSave]_vars

(***************************************************************************)
(* Properties of the reconciliation pass (under Spec).                     *)
(***************************************************************************)
\* The positions the loop of the current run has appended an entry for.
Handled == 1..Len(updatedRepositories)

\* The run has returned.
Returned == pc = "done"

\* A reorganize run has returned.
PassDone == pc = "done" /\ obs.passNo > 0

\* The run is an apply run that entered its loop.
ApplyRun == ~dryRunReorg /\ obs.passNo > 0

\* Entry k of the run differs from what was loaded in one of the fields.
Changed(before, after) ==
    \/ before.CurrentURL # after.CurrentURL
    \/ before.OriginalURL # after.OriginalURL
    \/ before.Path # after.Path
    \/ before.Name # after.Name

\* C1: conflict safety.  In an apply run, an entry whose conventional path
\* was on disk when its path check ran has no os.Rename call made for it,
\* and its path in the result (and in the registry once the run returned)
\* is the path it was loaded with.
C1_ConflictSafety ==
    ApplyRun =>
        \A k \in obs.targetExisted :
            /\ \A m \in obs.renames : m.k # k
            /\ k \in Handled =>
                   updatedRepositories[k].Path = originalRepositories[k].Path
            /\ Returned => repos[k].Path = originalRepositories[k].Path

\* An apply run has returned after it found the conventional path of a
\* misplaced entry occupied.
C1_Witness ==
    /\ Returned /\ ApplyRun
    /\ \E k \in obs.targetExisted \cap obs.mismatched : obs.outcomes[k] = "conflict"

\* C2: a dry run has no side effects.  At every point of a dry run no
\* os.Rename and no os.MkdirAll call was made, Save was not called, the disk
\* and the state file are what they were when the run started, and every
\* entry handled so far has the path, current URL and original URL it was
\* loaded with.
C2_DryRunNoSideEffects ==
    (dryRunReorg /\ obs.passNo > 0) =>
        /\ obs.renames = {}
        /\ obs.mkdirs = 0
        /\ obs.saves = 0
        /\ fs = obs.fs0
        /\ files = obs.files0
        /\ \A k \in Handled :
              /\ updatedRepositories[k].Path = originalRepositories[k].Path
              /\ updatedRepositories[k].CurrentURL = originalRepositories[k].CurrentURL
              /\ updatedRepositories[k].OriginalURL = originalRepositories[k].OriginalURL
        /\ Returned =>
              \A k \in 1..Len(repos) :
                  /\ repos[k].Path = originalRepositories[k].Path
                  /\ repos[k].CurrentURL = originalRepositories[k].CurrentURL
                  /\ repos[k].OriginalURL = originalRepositories[k].OriginalURL

\* A dry run has returned after proposing a move and a URL update (more
\* proposals than misplaced entries).
C2_Witness ==
    /\ Returned /\ dryRunReorg
    /\ \E k \in obs.mismatched : obs.outcomes[k] = "moveProposed"
    /\ actionsProposed > Cardinality(obs.mismatched)

\* C3: idempotence.  An apply run that directly follows an apply run
\* (nothing but the two runs touches the disk, no call fails in either and
\* both return nil) proposes no change and applies no change.
C3_Idempotence ==
    (Returned /\ ApplyRun /\ obs.prevApplied /\ NoFailedCall) =>
        (actionsProposed = 0 /\ actionsTaken = 0)

\* C5: path uniqueness.  No two entries of the registry in memory reference
\* the same path, and no two entries of the persisted registry do.
C5_PathUniqueness ==
    /\ UniquePaths(repos)
    /\ IsComplete(files.state) => UniquePaths(Unmarshal(files.state.c1[1]))

\* C8: resumability.  When an apply run that follows a killed run has
\* returned nil with no call failed, every entry whose directory the killed
\* run had moved records the path the directory is at.
C8_Resumable ==
    (Returned /\ ApplyRun /\ runErr = "nil" /\ NoFailedCall /\ obs.resumed > 0) =>
        \A o \in obs.orphans :
            o.k \in 1..Len(repos) /\ repos[o.k].Path = o.to

\* C9: per-entry failures never abort the run.  The loop handles the
\* positions 1, 2, ... in order and appends one entry for each, the entry
\* it was given (told by its Notes); once the run returned the registry has
\* the length and order it was loaded with, and the run returned an error
\* exactly when Save was called and failed.
C9_NeverAborts ==
    obs.passNo > 0 =>
        /\ obs.processed = [k \in 1..Len(obs.processed) |-> k]
        /\ Len(updatedRepositories) = Len(obs.processed)
        /\ \A k \in Handled :
              updatedRepositories[k].Notes = originalRepositories[k].Notes
        /\ pc = "loop" => next = Len(obs.processed) + 1
        /\ Returned =>
              /\ Len(obs.processed) = Len(originalRepositories)
              /\ Len(repos) = Len(originalRepositories)
              /\ \A k \in 1..Len(repos) : repos[k].Notes = originalRepositories[k].Notes
              /\ (runErr # "nil") <=> (obs.saves = 1 /\ obs.saveFailed)

\* A run of two entries has returned the error of its failed Save after the
\* first entry met a conflict and the second was moved.
C9_Witness ==
    /\ Returned
    /\ Len(obs.outcomes) = 2
    /\ obs.outcomes[1] = "conflict"
    /\ obs.outcomes[2] = "moved"
    /\ runErr = "save failed"

\* C10: one Save per run.  In an apply run Save is called at most once and
\* not before the loop has handled every entry; once the run returned, Save
\* was called exactly when an entry differs from what was loaded in its
\* current URL, original URL, path or name.
C10_SaveOncePerPass ==
    ApplyRun =>
        /\ obs.saves <= 1
        /\ obs.saves = 1 =>
              Returned /\ Len(obs.processed) = Len(originalRepositories)
        /\ Returned =>
              ((obs.saves = 1) <=>
                  \E k \in 1..Len(repos) : Changed(originalRepositories[k], repos[k]))

\* An apply run of two entries has returned after one Save, one entry
\* changed and the other as it was loaded.
C10_Witness ==
    /\ Returned /\ ApplyRun
    /\ obs.saves = 1
    /\ Len(repos) = 2
    /\ \E k \in 1..2 : Changed(originalRepositories[k], repos[k])
    /\ \E k \in 1..2 : ~Changed(originalRepositories[k], repos[k])

\* The outcomes of an iteration that skipped its entry: the path is missing,
\* cannot be stat'ed or is no repository, the origin URL cannot be read or
\* does not parse.
SkipOutcomes == {"missing", "statError", "notRepo", "remoteError", "liveUnparsable"}

\* C11: a skipped entry is retained as it is.  In a dry run and in an apply
\* run alike, an entry the loop skipped (path missing, stat error, not a
\* repository, origin URL unreadable or unparsable) is appended with every
\* field as loaded, no os.Rename call is made for it, and it is in the
\* registry unchanged once the run returned.
C11_SkippedRetained ==
    obs.passNo > 0 =>
        \A k \in Handled :
            obs.outcomes[k] \in SkipOutcomes =>
                /\ updatedRepositories[k] = originalRepositories[k]
                /\ \A m \in obs.renames : m.k # k
                /\ Returned => repos[k] = originalRepositories[k]

\* An apply run of two entries has returned after it skipped one entry and
\* moved the other.
C11_Witness ==
    /\ Returned /\ ApplyRun
    /\ Len(obs.outcomes) = 2
    /\ \E k \in 1..2 : obs.outcomes[k] \in SkipOutcomes
    /\ \E k \in 1..2 : obs.outcomes[k] = "moved"

\* C12: the URL check in an apply run.  For every entry the run reported a
\* changed remote URL for, the entry's CurrentURL is the live origin URL, and
\* its OriginalURL is the live URL when it was equal to the CurrentURL the
\* entry was loaded with, and what it was loaded with otherwise.
C12_UrlUpdate ==
    ApplyRun =>
        \A d \in obs.drifts :
            LET before == originalRepositories[d.k]
                orig   == IF before.OriginalURL = before.CurrentURL THEN d.live
                          ELSE before.OriginalURL
            IN  /\ d.k \in Handled
                /\ updatedRepositories[d.k].CurrentURL = d.live
                /\ updatedRepositories[d.k].OriginalURL = orig
                /\ Returned => /\ repos[d.k].CurrentURL = d.live
                               /\ repos[d.k].OriginalURL = orig

\* An apply run has returned after a URL update of an entry whose
\* OriginalURL was its CurrentURL and of an entry whose OriginalURL was
\* neither its CurrentURL nor the live URL.
C12_Witness ==
    /\ Returned /\ ApplyRun
    /\ \E d \in obs.drifts :
          /\ originalRepositories[d.k].OriginalURL = originalRepositories[d.k].CurrentURL
          /\ originalRepositories[d.k].CurrentURL # d.live
          /\ repos[d.k].OriginalURL = d.live
    /\ \E d \in obs.drifts :
          /\ originalRepositories[d.k].OriginalURL # originalRepositories[d.k].CurrentURL
          /\ originalRepositories[d.k].OriginalURL # d.live
          /\ repos[d.k].OriginalURL = originalRepositories[d.k].OriginalURL
          /\ repos[d.k].CurrentURL = d.live

\* What the loop body does with entry e when it is the only entry of the
\* registry: it runs on the disk the run started with.
AloneOutcome(e) == ReorgEntry(e, obs.fs0, dryRunReorg, "none").outcome

\* C14: entries are reconciled independently.  Within one run, the outcome
\* for every entry no failing call interfered with (skipped, URL updated,
\* move proposed, moved, conflict, move refused) is the outcome the same
\* entry has as the only entry of the registry on the same disk.
C14_Independent ==
    \A k \in 1..Len(obs.outcomes) :
        obs.outcomes[k] \notin FailedCalls =>
            obs.outcomes[k] = AloneOutcome(originalRepositories[k])

\* C20: LastModified is refreshed on any field change.  Once an apply run
\* has returned, every entry that differs from what was loaded in its
\* CurrentURL, OriginalURL, Path or Name has a LastModified later than the
\* one it was loaded with.
C20_LastModifiedRefreshed ==
    (Returned /\ ApplyRun) =>
        \A k \in 1..Len(repos) :
            Changed(originalRepositories[k], repos[k]) =>
                repos[k].LastModified > originalRepositories[k].LastModified

\* The os.Rename calls of the run for the entry at position k.
RenamesOf(k) == {m \in obs.renames : m.k = k}

\* The outcomes of an iteration whose move did not take place.
FailedMoves == {"conflict", "targetStatError", "mkdirError", "renameError",
                "renameRefused"}

\* C34: in an apply run the path of an entry changes exactly when an
\* os.Rename for it succeeded, and is then the target of that rename; when
\* the target exists, the parent cannot be created or the rename fails the
\* path is unchanged; an iteration makes at most one GetRemoteOriginURL call
\* and at most one os.Rename call.
C34_PathFollowsRename ==
    ApplyRun =>
        \A k \in Handled :
            /\ (updatedRepositories[k].Path # originalRepositories[k].Path)
                  <=> (\E m \in RenamesOf(k) : m.ok)
            /\ \A m \in RenamesOf(k) : m.ok => updatedRepositories[k].Path = m.to
            /\ obs.outcomes[k] \in FailedMoves =>
                  updatedRepositories[k].Path = originalRepositories[k].Path
            /\ Cardinality(RenamesOf(k)) <= 1
            /\ obs.remoteCalls[k] <= 1

\* An apply run moved one repository and failed to rename another.
C34_Witness ==
    /\ ApplyRun
    /\ \E k, j \in Handled :
          /\ \E m \in RenamesOf(k) :
                m.ok /\ updatedRepositories[k].Path = m.to
                     /\ m.to # originalRepositories[k].Path
          /\ obs.outcomes[j] \in {"renameError", "renameRefused"}
          /\ updatedRepositories[j].Path = originalRepositories[j].Path

(***************************************************************************)
(* Properties of the pass beside other callers (under SpecShared).         *)
(***************************************************************************)
\* C24: no lost update.  An entry another caller of the process upserted
\* between the run's copy of the collection and its write-back is in the
\* collection once the run has returned.
C24_NoLostUpsert ==
    (Returned /\ obs.passNo > 0) =>
        \A n \in obs.upserts : \E k \in 1..Len(repos) : repos[k].Notes = n

(***************************************************************************)
(* Properties of the two modes (under SpecUrl).                            *)
(***************************************************************************)
\* The changes an iteration that ended as r reports for the entry e at
\* position k: the URL update to the live URL, the move to the target.
Reported(k, e, r) ==
    [urls  |-> IF r.drift THEN {[k |-> k, live |-> r.live]} ELSE {},
     moves |-> IF r.renameTo # EmptyStr /\ PathMismatch(e.Path, r.renameTo)
               THEN {[k |-> k, to |-> r.renameTo]} ELSE {}]

\* A dry run over one entry has returned and none of its calls failed.
DryRunOfOne ==
    /\ PassDone /\ dryRunReorg
    /\ Len(originalRepositories) = 1
    /\ NoFailedCall

\* C33: the dry run predicts the apply run.  The URL update and the move a
\* dry run reported for an entry are those an apply run started on the same
\* collection and disk reports for it.
C33_DryRunPredictsApply ==
    DryRunOfOne =>
        \E r \in {ReorgEntry(originalRepositories[1], obs.fs0, FALSE, "none")} :
            /\ obs.drifts = Reported(1, originalRepositories[1], r).urls
            /\ obs.targets = Reported(1, originalRepositories[1], r).moves

(***************************************************************************)
(* Properties of saving and loading (under SpecRound).                     *)
(***************************************************************************)
\* A LoadState call none of whose own calls failed has returned, and the
\* call of the process before it was a Save that returned nil.
LoadedAfterSave ==
    /\ storeLog.op = "load" /\ storeLog.fault = "none"
    /\ storeLog.prev.op = "save" /\ storeLog.prev.err = "nil"

\* C38: the round trip of Save and LoadState.  A LoadState that follows a
\* Save that returned nil returns, without error, a store whose entries are
\* the saved ones, each equal in every field, in the saved order.
C38_RoundTrip ==
    LoadedAfterSave =>
        /\ storeLog.err = "nil" /\ ~storeLog.nilStore
        /\ store = storeLog.prev.store

(***************************************************************************)
(* Properties of the drift condition (under SpecDrift).                    *)
(***************************************************************************)
\* The HTTPS form of a URL, empty when the URL does not parse or cannot be
\* converted.
HttpsOrEmpty(u) ==
    LET pu == ParseGitURL(u) IN
    IF pu.ok /\ ToHTTPS(pu).ok THEN ToHTTPS(pu).url ELSE EmptyStr

\* The origin URL of the repository at the path of the run's only entry.
LiveOfOne == GetRemoteOriginURL(obs.fs0, originalRepositories[1].Path).url

\* The only entry of the run was handled and its URL check was made.
UrlChecked ==
    /\ obs.passNo > 0 /\ pc \in {"loop", "done"}
    /\ Len(originalRepositories) = 1
    /\ obs.processed = <<1>>
    /\ obs.outcomes[1] \notin SkipOutcomes

Frame(e) ==
    [Notes |-> e.Notes, ManuallyAdded |-> e.ManuallyAdded, Domain |-> e.Domain,
     NormalizedFS |-> e.NormalizedFS, ClonedAt |-> e.ClonedAt,
     LastChecked |-> e.LastChecked, LastModified |-> e.LastModified]

\* The entries of the state file when it holds a whole document.
OnDisk == IF IsComplete(files.state) THEN Unmarshal(files.state.c1[1]) ELSE << >>

NameChecked ==
    {k \in 1..Len(obs.outcomes) :
        obs.outcomes[k] \notin {"missing", "statError", "notRepo", "remoteError",
                                "liveUnparsable", "noConventionalPath"}}

\* The positions whose entry the run renamed.
Renamed == {k \in 1..Len(repos) : repos[k].Name # originalRepositories[k].Name}

\* C35: the name check.  After a run in either mode every entry whose
\* iteration was not cut short has, in the collection in memory, the
\* repository name of its CurrentURL.  In an apply run a changed name makes
\* the run save, once, also when nothing else of the entry changed; a dry
\* run does not save.
C35_NameCheck ==
    PassDone =>
        /\ \A k \in NameChecked :
              repos[k].Name = ParseGitURL(repos[k].CurrentURL).RepoName
        /\ (~dryRunReorg /\ Renamed # {}) => obs.saves = 1
        /\ dryRunReorg => obs.saves = 0

\* An apply run changed nothing of its entry but the name (its move
\* failed) and saved once.
C35_Witness ==
    /\ PassDone /\ ~dryRunReorg
    /\ Renamed = {1}
    /\ repos[1].Path = originalRepositories[1].Path
    /\ repos[1].CurrentURL = originalRepositories[1].CurrentURL
    /\ repos[1].OriginalURL = originalRepositories[1].OriginalURL
    /\ actionsTaken = 0
    /\ obs.saves = 1

(***************************************************************************)
(* Properties of the URL comparison (under SpecUrl).                       *)
(***************************************************************************)
\* Two URLs address the same repository: the same host and the same path
\* segments, a trailing ".git" aside.
SameRepository(a, b) ==
    \E pa \in {ParseGitURL(a)}, pb \in {ParseGitURL(b)} :
        /\ pa.ok /\ pb.ok
        /\ pa.Domain = pb.Domain
        /\ TrimSuffix(pa.Path, DotGit) = TrimSuffix(pb.Path, DotGit)

\* One of the two URLs is an SSH form (SCP-like or ssh://), the other https.
CrossScheme(a, b) ==
    \E pa \in {ParseGitURL(a)}, pb \in {ParseGitURL(b)} :
        /\ pa.ok /\ pb.ok
        /\ \/ pa.IsSSH /\ pb.Scheme = SchemeHTTPS
           \/ pb.IsSSH /\ pa.Scheme = SchemeHTTPS

\* C13: cross-scheme equality.  No run reports a changed remote URL for an
\* entry whose stored CurrentURL and live origin URL address the same
\* repository, one in an SSH form and the other over https, with or without
\* a trailing ".git" on either side.
C13_CrossSchemeEqual ==
    \A d \in obs.drifts :
        ~ /\ SameRepository(originalRepositories[d.k].CurrentURL, d.live)
          /\ CrossScheme(originalRepositories[d.k].CurrentURL, d.live)

\* C15: a dry run mutates nothing in memory.  Once a dry run has returned,
\* the registry in memory is the collection the run was started with, entry
\* by entry and field by field, Name included.
C15_DryRunRegistryUnchanged ==
    (Returned /\ dryRunReorg /\ obs.passNo > 0) =>
        repos = originalRepositories

(***************************************************************************)
(* Properties of the store (under SpecStore).                              *)
(***************************************************************************)
\* C4: registry uniqueness under upsert.  After any sequence of store
\* operations on a registry that started empty, failed AddRepository calls
\* included, no two entries have the same path.
C4_UniqueAfterUpsert == UniquePaths(store)

\* An AddRepository call has replaced the entry of a path in a registry of
\* two entries.
C4_Witness ==
    /\ storeLog.op = "add" /\ storeLog.err = "nil"
    /\ IndexesOfPath(storeLog.before, storeLog.path) # {}
    /\ Len(store) = 2

\* The last store call was op and found an entry with its path.
CallOnExisting(op) ==
    storeLog.op = op /\ IndexesOfPath(storeLog.before, storeLog.path) # {}

\* The position of the entry the last store call found.
Hit == FirstIndexOfPath(storeLog.before, storeLog.path)

\* C16: upsert carry-forward.  After AddRepository was called with an entry
\* whose path is in the registry, the entry stored at that path has the
\* ClonedAt of the entry that was there before when the incoming ClonedAt
\* is zero, and the OriginalURL of that entry when the incoming OriginalURL
\* is empty.
C16_CarryForward ==
    CallOnExisting("add") =>
        /\ storeLog.entry.ClonedAt = 0 =>
               store[Hit].ClonedAt = storeLog.before[Hit].ClonedAt
        /\ storeLog.entry.OriginalURL = EmptyStr =>
               store[Hit].OriginalURL = storeLog.before[Hit].OriginalURL

\* An entry without the timestamps the store sets.
Untimed(e) == [e EXCEPT !.LastModified = 0, !.ClonedAt = 0, !.LastChecked = 0]

\* Every entry but the one at position i is what it was before the call.
OthersKept(i) ==
    /\ Len(store) = Len(storeLog.before)
    /\ \A j \in 1..Len(store) : j # i => store[j] = storeLog.before[j]

\* C17: AddRepository.  The call fails exactly when the entry's Path or its
\* OriginalURL is empty, and then the collection is what it was; a call that
\* succeeds for a path not in the registry appends the entry, the entries
\* before it unchanged and in their order; a call that succeeds for a path
\* in the registry replaces the entry at the position of that path and
\* leaves the length and the other entries as they were.
C17_AddRepository ==
    storeLog.op = "add" =>
        /\ (storeLog.err # "nil") <=>
               (storeLog.entry.Path = EmptyStr \/ storeLog.entry.OriginalURL = EmptyStr)
        /\ storeLog.err # "nil" => store = storeLog.before
        /\ (storeLog.err = "nil" /\ ~CallOnExisting("add")) =>
               /\ Len(store) = Len(storeLog.before) + 1
               /\ SubSeq(store, 1, Len(storeLog.before)) = storeLog.before
               /\ Untimed(store[Len(store)]) = Untimed(storeLog.entry)
        /\ (storeLog.err = "nil" /\ CallOnExisting("add")) =>
               /\ OthersKept(Hit)
               /\ Untimed(store[Hit]) = Untimed(storeLog.entry)

\* An AddRepository call has replaced the first of two entries by an entry
\* of other content.
C17_Witness ==
    /\ CallOnExisting("add") /\ storeLog.err = "nil"
    /\ Len(store) = 2
    /\ Hit = 1
    /\ store[1].Notes # storeLog.before[1].Notes

\* The fields UpdateRepository takes from the incoming entry as they come.
Incomer(e) == [e EXCEPT !.LastModified = 0, !.ClonedAt = 0, !.OriginalURL = EmptyStr]

\* The entry at the position the last call found is the incoming entry, with
\* ClonedAt and OriginalURL of the entry before where the incoming entry
\* leaves them unset, and LastModified the time of the call; the other
\* entries and the length are what they were.
ReplacedInPlace ==
    /\ storeLog.err = "nil"
    /\ OthersKept(Hit)
    /\ Incomer(store[Hit]) = Incomer(storeLog.entry)
    /\ store[Hit].ClonedAt = IF storeLog.entry.ClonedAt = 0
                             THEN storeLog.before[Hit].ClonedAt
                             ELSE storeLog.entry.ClonedAt
    /\ store[Hit].OriginalURL = IF storeLog.entry.OriginalURL = EmptyStr
                                THEN storeLog.before[Hit].OriginalURL
                                ELSE storeLog.entry.OriginalURL
    /\ store[Hit].LastModified = clock

\* C18 as stated: UpdateRepository fails with the not-found error and leaves
\* the collection as it was whenever no entry has the given path, and
\* replaces the entry in place otherwise.
C18_NotFoundWheneverAbsent ==
    storeLog.op = "update" =>
        IF CallOnExisting("update") THEN ReplacedInPlace
        ELSE storeLog.err = "not found" /\ store = storeLog.before

\* C18, amended: when no entry has the given path UpdateRepository fails and
\* leaves the collection as it was, with the not-found error for a path
\* that is not empty and with the empty-path error for the empty path; when
\* an entry has the path it is replaced in place, ClonedAt and OriginalURL
\* carried forward where unset, LastModified the time of the call, the
\* other entries and the length unchanged.
C18_UpdateRepository ==
    storeLog.op = "update" =>
        IF CallOnExisting("update") THEN ReplacedInPlace
        ELSE /\ storeLog.err = IF storeLog.path = EmptyStr THEN "empty path"
                               ELSE "not found"
             /\ store = storeLog.before

\* An UpdateRepository call with neither ClonedAt nor OriginalURL set has
\* replaced one of two entries, both fields carried forward.
C18_Witness ==
    /\ CallOnExisting("update") /\ storeLog.err = "nil"
    /\ Len(store) = 2
    /\ storeLog.entry.ClonedAt = 0 /\ storeLog.entry.OriginalURL = EmptyStr
    /\ store[Hit].ClonedAt # 0 /\ store[Hit].OriginalURL # EmptyStr
    /\ store[Hit].LastModified > storeLog.before[Hit].LastModified

(***************************************************************************)
(* Properties of the store on a loaded registry (under SpecLoaded).        *)
(***************************************************************************)
\* C19: RemoveRepositoryByPath.  When an entry has the path, the call
\* returns true and the collection is the one before without the first
\* entry of that path, the others in their order; when no entry has it the
\* call returns false and the collection is what it was; after a removal
\* from a registry of pairwise distinct paths FindRepositoryByPath finds
\* nothing at the path.
C19_RemoveFirstMatch ==
    storeLog.op = "remove" =>
        IF CallOnExisting("remove")
        THEN /\ storeLog.err = "nil"
             /\ Len(store) = Len(storeLog.before) - 1
             /\ \A j \in 1..Len(store) :
                    store[j] = storeLog.before[IF j < Hit THEN j ELSE j + 1]
             /\ UniquePaths(storeLog.before) =>
                    ~FindRepositoryByPath(store, storeLog.path).found
        ELSE storeLog.err = "absent" /\ store = storeLog.before

\* A removal from a registry with two entries of one path has left the
\* second of them.
C19_Witness ==
    /\ CallOnExisting("remove") /\ storeLog.err = "nil"
    /\ Len(storeLog.before) = 2
    /\ storeLog.before[1].Path = storeLog.before[2].Path
    /\ storeLog.before[1] # storeLog.before[2]
    /\ store = <<storeLog.before[2]>>

(***************************************************************************)
(* Properties of LoadState (under SpecLoad).                               *)
(***************************************************************************)
\* The last call was LoadState and it found the state file missing.
LoadedMissing == storeLog.op = "load" /\ ~storeLog.files0.state.exists

\* The last call was LoadState and it found the state file there.
LoadedExisting == storeLog.op = "load" /\ storeLog.files0.state.exists

\* C21: LoadState on a location that does not exist.  When os.Stat reports
\* the file missing and no call fails, the call returns an empty store and
\* the state file then holds the snapshot of the empty registry; when
\* MkdirAll or a step of the initial write fails, the call returns an error
\* and no store.
C21_LoadMissing ==
    (LoadedMissing /\ storeLog.fault # "stat") =>
        IF storeLog.fault \in {"mkdir", "write", "rename"}
        THEN storeLog.err # "nil" /\ ~StoreUsable
        ELSE /\ storeLog.err = "nil" /\ StoreUsable
             /\ store = << >>
             /\ files.state = FileOf(Marshal(<< >>))

\* LoadState has found no state file and returned the empty store.
C21_Witness ==
    /\ LoadedMissing /\ storeLog.err = "nil"
    /\ store = << >>
    /\ files.state = FileOf(Marshal(<< >>))

\* The file is there, is not empty, and is no registry document: cut short,
\* the value null, or a value of another shape.
Unparseable(file) ==
    /\ file.exists /\ file # EmptyFile
    /\ \/ ~IsComplete(file)
       \/ file.c1[1] \in {NullDoc, WrongShapeDoc}

\* C22: LoadState on an existing location, no call failing.  An empty file
\* gives an empty store and the files are left as they were; content that is
\* no registry document gives a corrupt-state error, not the I/O error; and
\* a call that returns no error returns a store that is not nil.
C22_LoadExisting ==
    (LoadedExisting /\ storeLog.fault = "none") =>
        /\ storeLog.files0.state = EmptyFile =>
               /\ storeLog.err = "nil" /\ store = << >>
               /\ files = storeLog.files0
        /\ Unparseable(storeLog.files0.state) => storeLog.err \in {"syntax", "type"}
        /\ storeLog.err = "nil" => ~storeLog.nilStore

(***************************************************************************)
(* Properties of the store's lock (under SpecThreads).                     *)
(***************************************************************************)
\* The goroutine is between its Lock/RLock and its Unlock/RUnlock.
InCritical(t) == thread[t].pc \in {"scan", "write", "unlock", "panic"}

\* The goroutine's operation has had its effect.
Effected(t) == thread[t].pc \in {"unlock", "done"}

\* What the operation gives when it runs alone on the collection the
\* goroutine found when it got the lock: [repos, err].
Atomically(th) ==
    IF th.op = "add" THEN AddRepository(th.snap, th.entry, th.now)
    ELSE IF th.op = "update" THEN UpdateRepository(th.snap, th.entry, th.now)
    ELSE IF th.op = "remove"
    THEN LET r == RemoveRepositoryByPath(th.snap, th.path) IN
         [repos |-> r.repos, err |-> IF r.removed THEN "nil" ELSE "absent"]
    ELSE IF th.op = "findPath"
    THEN LET r == FindRepositoryByPath(th.snap, th.path) IN
         [repos |-> IF r.found THEN <<r.entry>> ELSE th.snap,
          err |-> IF r.found THEN "found" ELSE "absent"]
    ELSE IF th.op = "findURL"
    THEN LET r == FindRepositoryByOriginalURL(th.snap, th.path) IN
         [repos |-> IF r.found THEN <<r.entry>> ELSE th.snap,
          err |-> IF r.found THEN "found" ELSE "absent"]
    ELSE [repos |-> th.snap, err |-> "nil"]

\* C23: the store's lock discipline.  Under every interleaving of the
\* goroutines of one process, a goroutine inside a mutating operation is
\* the only one inside any operation (lookups overlap only lookups); every
\* operation that has had its effect had the effect and the result it has
\* run alone on the collection as it was when the lock was granted (Save
\* wrote that collection); no operation panics; and no two entries of the
\* collection have the same path.
C23_LockDiscipline ==
    /\ \A t, u \in Threads :
          (t # u /\ InCritical(t) /\ InCritical(u)) =>
              (thread[t].op \notin Mutators /\ thread[u].op \notin Mutators)
    /\ \A t \in Threads :
          /\ thread[t].pc # "panic"
          /\ Effected(t) =>
                /\ thread[t].after = Atomically(thread[t]).repos
                /\ thread[t].err = Atomically(thread[t]).err
    /\ UniquePaths(store)

\* Two goroutines have upserted the same path with different contents, and
\* the collection holds one entry.
C23_Witness ==
    /\ \A t \in Threads : thread[t].pc = "done" /\ thread[t].op = "add"
                           /\ thread[t].path = PathB
    /\ \E t, u \in Threads : thread[t].entry # thread[u].entry
    /\ Len(store) = 1

(***************************************************************************)
(* Properties of the gitutil functions (under SpecConv).                   *)
(***************************************************************************)
\* C25: parse post-condition.  Every descriptor ParseGitURL returns without
\* an error, on the SCP-like branch as on the standard-URL branch, has a
\* non-empty domain and a non-empty repository name.
C25_ParsePostCondition ==
    \A d \in {conv.pu, conv.twinPu} :
        d.ok => d.Domain # EmptyStr /\ d.RepoName # EmptyStr

\* Two descriptors name the same repository: same domain, same path, same
\* repository name, hence the same local path and normalized path.
SameIdentity(p, q) ==
    /\ p.Domain = q.Domain
    /\ p.Path = q.Path
    /\ p.RepoName = q.RepoName
    /\ GetLocalPath(p, FussyGitHome) = GetLocalPath(q, FussyGitHome)
    /\ GetNormalizedFSPath(p) = GetNormalizedFSPath(q)

\* C26: the identity does not depend on the transport form.  Two URLs of
\* the same host and path that differ only in their scheme (https, http,
\* ssh://, git://, SCP-like) or in a trailing ".git", both parsed without
\* error, give the same domain, path and repository name, and so the same
\* GetLocalPath and GetNormalizedFSPath.
C26_TransportIndependent ==
    (/\ conv.step = "twin"
     /\ conv.form \in TransportForms /\ conv.twinForm \in TransportForms
     /\ conv.pu.ok /\ conv.twinPu.ok)
        => SameIdentity(conv.pu, conv.twinPu)

\* Parse, ToSSH, parse, ToHTTPS, parse.
RoundTrip == <<"parse", "ssh", "parse", "https", "parse">>

\* C27: round trip.  For an https URL that parses, with or without a
\* trailing ".git", the descriptor parsed from ToHTTPS of the descriptor
\* parsed from ToSSH of its descriptor has the GetNormalizedFSPath of the
\* URL's own descriptor.
C27_RoundTrip ==
    (conv.form = "https" /\ conv.trail = RoundTrip) =>
        /\ conv.pu.ok
        /\ GetNormalizedFSPath(conv.pu) = GetNormalizedFSPath(conv.first)

\* url.Parse finds no scheme in the string and the SCP-like pattern does
\* not match it.
SchemeLess(repoURL) ==
    /\ ~ScpMatch(repoURL).matched
    /\ GetScheme(repoURL).scheme = EmptyStr

\* C28: inputs without a scheme that do not match the SCP-like pattern.
\* With a colon anywhere in the string ParseGitURL fails; without one it
\* succeeds with the domain "local", IsSSH false and the repository name the
\* base name of the input with ".git" stripped.
C28_SchemeLess ==
    (conv.trail = <<"parse">> /\ SchemeLess(conv.in)) =>
        IF Contains(conv.in, ":")
        THEN ~conv.pu.ok
        ELSE /\ conv.pu.ok
             /\ conv.pu.Domain = LocalDomain
             /\ ~conv.pu.IsSSH
             /\ conv.pu.RepoName = TrimSuffix(Base(conv.in), DotGit)

\* C29: ToSSH.  For a descriptor of an http or https URL with a path the
\* result is <user>@<domain>:<path>.git, the user being the URL's user when
\* it has one and "git" otherwise, with one ".git" suffix; for an ssh
\* descriptor it is the original URL; for every other scheme it is an
\* error.
C29_ToSSH ==
    (conv.trail = <<"parse", "ssh">>) =>
        \E d \in {conv.pu} :
            IF d.IsSSH
            THEN conv.out = [ok |-> TRUE, url |-> d.OriginalURL]
            ELSE IF d.Scheme \in {SchemeHTTP, SchemeHTTPS}
            THEN d.Path # EmptyStr =>
                    conv.out =
                        [ok  |-> TRUE,
                         url |-> (IF d.User # EmptyStr THEN d.User ELSE SchemeGit)
                                 \o <<"@">> \o d.Domain \o <<":">>
                                 \o TrimSuffix(d.Path, DotGit) \o DotGit]
            ELSE ~conv.out.ok

\* ToHTTPS was called on the descriptor of the URL handed in.
ConvertedToHTTPS == conv.trail = <<"parse", "https">>

Created(op) == pc = "idle" /\ obs.cli.op = op /\ obs.cli.adds = 1

\* The entries of the collection at the path the last command worked on.
AtCmdPath == {k \in 1..Len(repos) : repos[k].Path = obs.cli.path}

\* C31: ManuallyAdded records provenance.  The entry add creates has
\* ManuallyAdded true; the entry clone creates has it false, with
\* OriginalURL and CurrentURL the URL given to clone; a reorganize run
\* leaves ManuallyAdded of every entry as it was.
C31_Provenance ==
    /\ Created("add") => \A k \in AtCmdPath : repos[k].ManuallyAdded
    /\ Created("clone") =>
          \A k \in AtCmdPath :
              /\ ~repos[k].ManuallyAdded
              /\ repos[k].OriginalURL = obs.cli.arg
              /\ repos[k].CurrentURL = obs.cli.arg
    /\ (Created("add") \/ Created("clone")) =>
          /\ AtCmdPath # {}
          /\ Len(repos) = Len(obs.cli.repos0) + 1
    /\ PassDone =>
          /\ Len(repos) = Len(originalRepositories)
          /\ \A k \in 1..Len(repos) :
                repos[k].ManuallyAdded = originalRepositories[k].ManuallyAdded

\* An adopted repository was moved by an apply run and is still recorded
\* as adopted, beside an entry that a clone created.
C31_Witness ==
    /\ PassDone /\ ~dryRunReorg
    /\ obs.cli.op = "clone" /\ obs.cli.adds = 1
    /\ \E k, j \in 1..Len(repos) :
          /\ repos[k].ManuallyAdded
          /\ repos[k].Path # originalRepositories[k].Path
          /\ ~repos[j].ManuallyAdded
          /\ repos[j].Path = obs.cli.path

\* A clone has just returned.
Cloned == pc = "idle" /\ obs.cli.op = "clone"

\* The entries the clone found tracked at the target of its URL.
TrackedAtTarget ==
    {k \in 1..Len(obs.cli.repos0) :
        /\ ParseGitURL(obs.cli.arg).ok
        /\ obs.cli.repos0[k].Path
               = GetLocalPath(ParseGitURL(obs.cli.arg), FussyGitHome)}

\* The command left the collection, the files and the disk as it found them.
NothingChanged ==
    /\ repos = obs.cli.repos0
    /\ files = obs.cli.files0
    /\ fs = obs.cli.fs0

\* C32: clone conflict.  When the target path of the URL given to clone is
\* tracked, clone returns nil if the URL is the entry's OriginalURL or its
\* CurrentURL and a conflict error otherwise; either way git clone is not
\* run and the collection and the state file are unchanged.
C32_CloneConflict ==
    (Cloned /\ TrackedAtTarget # {}) =>
        /\ \E k \in TrackedAtTarget :
              /\ \A j \in TrackedAtTarget : k <= j
              /\ obs.cli.err =
                    IF \/ obs.cli.repos0[k].OriginalURL = obs.cli.arg
                       \/ obs.cli.repos0[k].CurrentURL = obs.cli.arg
                    THEN "nil" ELSE "conflict"
        /\ ~obs.cli.ran
        /\ obs.cli.adds = 0 /\ obs.cli.saves = 0
        /\ NothingChanged

\* A clone of the https URL of a repository failed with a conflict: its
\* target is tracked under the SCP-like URL.
C32_Witness ==
    /\ Cloned
    /\ obs.cli.arg = UrlB
    /\ obs.cli.err = "conflict"
    /\ \E k \in TrackedAtTarget : obs.cli.repos0[k].CurrentURL = UrlBScp

\* The errors clone returns before git clone has succeeded.
EarlyErrors == {"invalid", "exists", "mkdir", "clone"}

\* C39: clone changes the collection and the state file only after git
\* clone succeeded.  With an unparsable URL, an untracked target on disk, a
\* parent directory that cannot be created or a failed git clone, both are
\* unchanged.  After a successful git clone one entry whose path is the
\* target is appended and Save is called once; when that Save fails its
\* error is returned, the entry stays in the collection and the clone on
\* disk, and when it succeeds the state file holds the collection.
C39_CloneTracksAfterSuccess ==
    Cloned =>
        /\ obs.cli.err \in EarlyErrors =>
              /\ ~obs.cli.cloned
              /\ repos = obs.cli.repos0 /\ files = obs.cli.files0
              /\ obs.cli.adds = 0 /\ obs.cli.saves = 0
        /\ (repos # obs.cli.repos0 \/ files # obs.cli.files0) => obs.cli.cloned
        /\ obs.cli.cloned =>
              /\ obs.cli.err \in {"nil", "save"}
              /\ obs.cli.adds = 1 /\ obs.cli.saves = 1
              /\ obs.cli.path = GetLocalPath(ParseGitURL(obs.cli.arg), FussyGitHome)
              /\ Len(repos) = Len(obs.cli.repos0) + 1
              /\ SubSeq(repos, 1, Len(obs.cli.repos0)) = obs.cli.repos0
              /\ AtCmdPath = {Len(repos)}
              /\ IsGitRepository(fs, obs.cli.path)
              /\ obs.cli.err = "nil" => files.state = FileOf(Marshal(repos))
              /\ obs.cli.err = "save" => files.state = obs.cli.files0.state

\* A clone succeeded and the Save after it failed: the entry is in the
\* collection, the clone on disk, the state file as it was.
C39_Witness ==
    /\ Cloned
    /\ obs.cli.cloned
    /\ obs.cli.err = "save"
    /\ AtCmdPath # {}
    /\ IsGitRepository(fs, obs.cli.path)
    /\ files.state = obs.cli.files0.state

(***************************************************************************)
(* Properties of Save (under SpecSave).                                    *)
(***************************************************************************)
\* C6: crash-safe save.  As long as no save began while another was under
\* way, whatever step a save was killed at, the state file is what it was
\* before the saves or holds the whole of the snapshot of a save that began.
C6_CrashSafeSave ==
    ~obs.overlap =>
        \/ files.state = obs.files0.state
        \/ \E p \in Savers : saver[p].pc # "idle" /\ files.state = FileOf(saver[p].doc)

\* A save was killed, and a later save of another snapshot has completed.
C6_Witness ==
    /\ ~obs.overlap
    /\ \E p, q \in Savers :
          /\ saver[p].pc = "dead"
          /\ saver[q].pc = "done" /\ saver[q].err = "nil"
          /\ saver[q].doc # saver[p].doc
          /\ files.state = FileOf(saver[q].doc)
          /\ files.state # obs.files0.state

\* C7: concurrent saves.  Under every interleaving of the steps of the
\* saving processes, the state file, when it exists, holds a whole document.
C7_NoHalfWrittenFile ==
    files.state.exists => IsComplete(files.state)

=============================================================================
